---------------------------- MODULE Spec2Model ----------------------------
(***************************************************************************)
(* The windowed word browser of lexifree (src/unnamed/part_001, lines      *)
(* 1-752): a list of words shown as pages of three columns inside a        *)
(* scrolling display area, a slider whose handle selects a page, and a     *)
(* scroll listener that moves the handle when the list is scrolled.        *)
(*                                                                         *)
(* JavaScript numbers are modelled exactly where the code divides: a       *)
(* slider offset is a rational <<n, d>> (d > 0, lowest terms).  The two    *)
(* non-finite values the code can produce before the interface is          *)
(* initialized, NaN (0 / 0) and Infinity (n / 0), are the integers NaN and *)
(* Infinity below, which no finite quantity of the model reaches.          *)
(* Pixel geometry comes from src/slider_interface/style.css.               *)
(***************************************************************************)
EXTENDS Integers, Sequences, FiniteSets, TLC

VARIABLES
  wordList,                 \* let wordList            (part_001:2)
  fontLoaded,               \* let fontLoaded          (part_001:3)
  wordsLoaded,              \* let wordsLoaded         (part_001:4)
  fetchState,               \* the fetch promise: "pending", "ok", "failed"
  initialized,              \* initializeInterface has run (its listeners exist)
  displayHeight,            \* displayArea.offsetHeight (environment)
  containerWidth,           \* sliderContainer.offsetWidth (environment)
  sliderWidth,              \* let sliderWidth         (part_001:52)
  currentPosition,          \* let currentPosition     (part_001:58), a rational
  handleLeft,               \* sliderHandle.style.left, a rational
  isDragging,               \* let isDragging          (part_001:56)
  startX,                   \* let startX              (part_001:57)
  mouseListeners,           \* mousemove/mouseup are attached to document
  touchListeners,           \* touchmove/touchend are attached to document
  rowsPerColumn,            \* let rowsPerColumn       (part_001:59)
  wordsPerPage,             \* let wordsPerPage        (part_001:60)
  verticalPadding,          \* let verticalPadding     (part_001:64)
  pages,                    \* displayArea.children, a sequence of page containers
  currentVisiblePageIndex,  \* let currentVisiblePageIndex (part_001:220)
  scrollTop,                \* displayArea.scrollTop
  rafQueue,                 \* queued requestAnimationFrame(syncSliderWithScroll)
  hung,                     \* a handler entered a loop that never ends
  threw,                    \* a handler raised an uncaught TypeError
  roundTrip,                \* what direct calls of the page store did (PageSpec)
  letterDividers,           \* children of #letterDividers, the divider elements
  lettersFitArray,          \* let lettersFitArray    (part_001:67)
  activeLetterOverlays,     \* let activeLetterOverlays (part_001:70)
  ignoredEvents,            \* the pointer events dispatched to no listener
  scrollSnapType,           \* scroll-snap-type in effect on the display area
  scrollSnapTimer,          \* let scrollSnapTimer (part_001:629), 0 for null
  timers,                   \* the pending timeouts: [id, remaining] in ms
  browser,                  \* what getBrowser() returns in this session
  initializeCalls           \* how many times initializeInterface() was entered

vars == <<wordList, fontLoaded, wordsLoaded, fetchState, initialized,
          displayHeight, containerWidth, sliderWidth, currentPosition,
          handleLeft, isDragging, startX, mouseListeners, touchListeners,
          rowsPerColumn, wordsPerPage, verticalPadding, pages,
          currentVisiblePageIndex, scrollTop, rafQueue, hung, threw,
          roundTrip, letterDividers, lettersFitArray, activeLetterOverlays,
          ignoredEvents, scrollSnapType, scrollSnapTimer, timers, browser,
          initializeCalls>>

---------------------------------------------------------------------------
(* Bounds of the model.                                                    *)

\* The longest word list the fetch delivers.
MaxWords == 37

\* The most animation-frame callbacks that may be queued at once.
MaxQueue == 2

\* The most pointer events without a listener that are recorded.
MaxIgnored == 1

\* The longest word list of LetterSpec.
MaxLetterWords == 3

\* The longest step of the clock, in milliseconds.
TickMs == 40

---------------------------------------------------------------------------
(* Program and style-sheet constants.                                      *)

\* Number of columns of a page (populatePage's loop bound).
ColumnsPerPage == 3

\* const columnPadding = 20 in calculateRows.
ColumnPadding == 20

\* pageContainer.style.height = "350px" in createEmptyPage.
PageStyleHeight == 350

\* .page-container { border: 1px solid } (top and bottom edge together).
PageBorder == 2

\* .page-container { margin-bottom: 20px }.
PageMarginBottom == 20

\* .slider-handle { width: 20px }: const handleWidth = sliderHandle.offsetWidth.
handleWidth == 20

\* The height measureWordItemHeight measures once and caches; it depends on
\* the font the browser renders a word item with.
measuredWordItemHeight == 120

\* The values of 0 / 0 and n / 0 in JavaScript.
NaN == -1000000
Infinity == 1000000

IsFinite(x) == x # NaN /\ x # Infinity

---------------------------------------------------------------------------
(* Inputs of the environment.                                              *)

\* The sizes a window size gives the page, <<offsetHeight of the display
\* area, offsetWidth of the slider container>>: the style sheet's
\* .display-area { height: 380px } with .slider-container { width: 670px },
\* and a taller, narrower layout.
Viewports == {<<380, 670>>, <<500, 420>>}

\* Lengths of the word list the server may deliver.
ListLengths == {0, 1, MaxWords}

\* Pointer x-coordinates relative to the slider container's left edge.
PointerXs == {-15, 200, 700}

\* Where inside the handle a pointer may grab it (0 .. handleWidth).
GrabOffsets == {10}

\* How far (in pixels) a user scroll may rest below the top of a page.
ScrollOffsets == {0, 200}

\* const alphabet = "ABCDEFGHIJKLMNOPQRSTUVWXYZ".
Alphabet ==
  <<"A", "B", "C", "D", "E", "F", "G", "H", "I", "J", "K", "L", "M",
    "N", "O", "P", "Q", "R", "S", "T", "U", "V", "W", "X", "Y", "Z">>

AlphabetSet == {Alphabet[k] : k \in DOMAIN Alphabet}

\* The lower-case letters, in the order of Alphabet.
LowerCase ==
  <<"a", "b", "c", "d", "e", "f", "g", "h", "i", "j", "k", "l", "m",
    "n", "o", "p", "q", "r", "s", "t", "u", "v", "w", "x", "y", "z">>

\* A word is <<its first character, what tells it from other words>>; the
\* first character is "" for the empty string.
\* Word i (from 0) of the delivered list: sorted without regard to case,
\* upper and lower case mixed, three words for every two letters.
Word(i) ==
  LET rank == (2 * i) \div 3
  IN  <<IF i % 2 = 0 THEN Alphabet[rank + 1] ELSE LowerCase[rank + 1], i>>

WordListOf(n) == [k \in 1..n |-> Word(k - 1)]

---------------------------------------------------------------------------
(* Rational arithmetic for pixel offsets.                                  *)

Abs(x) == IF x < 0 THEN -x ELSE x

RECURSIVE GCD(_, _)
GCD(a, b) == IF b = 0 THEN a ELSE GCD(b, a % b)

\* The rational n / d, d > 0, in lowest terms.
Rat(n, d) ==
  LET g == GCD(Abs(n), d)
  IN  IF n = 0 THEN <<0, 1>> ELSE <<n \div g, d \div g>>

RatInt(k) == <<k, 1>>
RatLE(a, b) == a[1] * b[2] <= b[1] * a[2]
RatMin(a, b) == IF RatLE(a, b) THEN a ELSE b
RatMax(a, b) == IF RatLE(a, b) THEN b ELSE a
RatMulInt(a, k) == Rat(a[1] * k, a[2])
RatDivInt(a, k) == Rat(a[1], a[2] * k)
\* Math.floor of a rational.
RatFloor(a) == a[1] \div a[2]
RatLT(a, b) == ~RatLE(b, a)
RatAdd(a, b) == Rat(a[1] * b[2] + b[1] * a[2], a[2] * b[2])
RatSub(a, b) == Rat(a[1] * b[2] - b[1] * a[2], a[2] * b[2])

Min(a, b) == IF a <= b THEN a ELSE b
Max(a, b) == IF a >= b THEN a ELSE b


---------------------------------------------------------------------------
(* Layout.                                                                 *)

\* calculateRows: Math.floor((displayHeight - columnPadding) / itemHeight).
calculateRows(h) == (h - ColumnPadding) \div measuredWordItemHeight

\* calculateVerticalPadding: half of what the rows leave of the height.
calculateVerticalPadding(h, rows) ==
  Max(0, h - rows * measuredWordItemHeight) \div 2

\* Math.ceil(wordList.length / wordsPerPage), as JavaScript evaluates it.
totalPagesOf(len, wpp) ==
  IF wpp = 0 THEN (IF len = 0 THEN NaN ELSE Infinity)
  ELSE IF wpp > 0 THEN (len + wpp - 1) \div wpp
  ELSE -(len \div (-wpp))

\* The globals the page store and the synchronizer read: the word list, the
\* layout, the slider width, the viewport height, the drag flag and the
\* letters that fit.
Context(wl, rows, wpp, vp, sw, h, drag, fit) ==
  [wordList |-> wl, rowsPerColumn |-> rows, wordsPerPage |-> wpp,
   verticalPadding |-> vp, sliderWidth |-> sw, displayHeight |-> h,
   isDragging |-> drag, lettersFitArray |-> fit]

\* offsetHeight of a page container and the distance between two page tops.
PageOffsetHeight == PageStyleHeight + PageBorder
PageStride == PageOffsetHeight + PageMarginBottom

\* offsetTop of page i inside the display area.
PageTop(i) == i * PageStride

\* The largest scrollTop the display area allows with n pages.
MaxScrollTop(n, h) == Max(0, n * PageStride - h)

---------------------------------------------------------------------------
(* Letter index builder.                                                   *)

\* word.charAt(0).
charAt0(word) == word[1]

\* toUpperCase of a string of at most one character.
UpperCaseOf ==
  [c \in {LowerCase[k] : k \in DOMAIN LowerCase} |->
     Alphabet[CHOOSE k \in DOMAIN LowerCase : LowerCase[k] = c]]

toUpperCase(c) == IF c \in DOMAIN UpperCaseOf THEN UpperCaseOf[c] ELSE c

\* alphabet.indexOf(c) for a string of at most one character; the empty
\* string is found at 0.
AlphabetIndex ==
  [c \in AlphabetSet |-> (CHOOSE k \in DOMAIN Alphabet : Alphabet[k] = c) - 1]

alphabetIndexOf(c) ==
  IF c = "" THEN 0
  ELSE IF c \in AlphabetSet THEN AlphabetIndex[c]
  ELSE -1

\* alphabet.includes(c).
alphabetIncludes(c) == alphabetIndexOf(c) # -1

\* scanLetterIndices recording the last word seen for the letter instead of
\* the first.
RECURSIVE scanLetterIndices_LastSeen(_, _, _, _)
scanLetterIndices_LastSeen(wl, letter, i, cur) ==
  IF i >= Len(wl) THEN cur
  ELSE
    LET firstChar == toUpperCase(charAt0(wl[i + 1]))
    IN  IF alphabetIncludes(firstChar) /\ firstChar = letter
          THEN scanLetterIndices_LastSeen(wl, letter, i + 1, i)
          ELSE scanLetterIndices_LastSeen(wl, letter, i + 1, cur)

\* The scan of createLetterDividers from word i on, for the entry of one
\* letter: cur is -1 or the index of the first word seen for the letter.
\* The empty string is no key of letterIndices and sets no entry.
RECURSIVE scanLetterIndices(_, _, _, _)
scanLetterIndices(wl, letter, i, cur) ==
  IF i >= Len(wl) THEN cur
  ELSE
    LET firstChar == toUpperCase(charAt0(wl[i + 1]))
    IN  IF cur = -1 /\ alphabetIncludes(firstChar) /\ firstChar = letter
          THEN scanLetterIndices(wl, letter, i + 1, i)
          ELSE scanLetterIndices(wl, letter, i + 1, cur)

\* letterIndices after the two loops of createLetterDividers, as the scan
\* computes it.
scannedLetterIndices(wl) ==
  [letter \in AlphabetSet |-> scanLetterIndices(wl, letter, 0, -1)]

\* The function f on the set S, every value computed.
RECURSIVE TabulateOn(_, _)
TabulateOn(f, S) ==
  IF S = {} THEN <<>>
  ELSE LET x == CHOOSE y \in S : TRUE
       IN  (x :> f[x]) @@ TabulateOn(f, S \ {x})

Tabulate(f) == TabulateOn(f, DOMAIN f)

\* The word lists the specifications deliver, by length.
DeliveredLists == Tabulate([n \in 1..MaxWords |-> Tabulate(WordListOf(n))])

isDelivered(wl) ==
  Len(wl) \in DOMAIN DeliveredLists /\ DeliveredLists[Len(wl)] = wl

\* scannedLetterIndices of the delivered lists, computed once.
deliveredLetterIndices ==
  Tabulate([n \in 1..MaxWords |->
              Tabulate(scannedLetterIndices(WordListOf(n)))])

\* letterIndices after the two loops of createLetterDividers.
letterIndices(wl) ==
  IF isDelivered(wl) THEN deliveredLetterIndices[Len(wl)]
  ELSE scannedLetterIndices(wl)

\* dividerPositions: entry k (from 1) is dividerPositions[k - 1], the start
\* of letter Alphabet[k]; the last entry is the end of the track.
dividerPositions(wl, cw) ==
  LET idx == letterIndices(wl)
      availableWidth == cw - handleWidth
  IN  [k \in 1..(Len(Alphabet) + 1) |->
         IF k = 1 THEN RatInt(0)
         ELSE IF k = Len(Alphabet) + 1 THEN RatInt(availableWidth)
         ELSE Rat(idx[Alphabet[k]] * availableWidth, Len(wl))]

\* context.measureText(letter).width for the font of .letter-marker.
measureTextWidth(letter) ==
  IF letter \in {"M", "W"} THEN 16
  ELSE IF letter \in {"I", "J"} THEN 6
  ELSE 11

\* The padding calculateLetterFit adds to a letter's width.
LetterPadding == 4

\* The delay of the timer that re-enables scroll snapping, in milliseconds.
SnapDelay == 120

\* calculateLetterFit(dividerPositions).
calculateLetterFit(dp) ==
  [k \in DOMAIN Alphabet |->
     RatLT(RatInt(measureTextWidth(Alphabet[k]) + LetterPadding),
           RatSub(dp[k + 1], dp[k]))]

\* The divider elements createLetterDividers appends, for B to Z.
dividerElements(dp) ==
  [k \in 1..(Len(Alphabet) - 1) |->
     [left |-> RatAdd(dp[k + 1], Rat(handleWidth, 2)),
      title |-> <<Alphabet[k], Alphabet[k + 1]>>]]

\* What createLetterDividers leaves for a non-empty word list wl and a slider
\* container cw wide: the divider elements and lettersFitArray.
buildLetterDividers(wl, cw) ==
  LET dp == dividerPositions(wl, cw)
  IN  [dividers |-> dividerElements(dp), fit |-> calculateLetterFit(dp)]

\* buildLetterDividers of the word lists and container widths the
\* specifications deliver, computed once.
builtLetterDividers ==
  Tabulate([p \in (1..MaxWords) \X {v[2] : v \in Viewports} |->
              LET built == buildLetterDividers(WordListOf(p[1]), p[2])
              IN  [dividers |-> Tabulate(built.dividers),
                   fit |-> Tabulate(built.fit)]])

\* createLetterDividers without the return for an empty word list.
createLetterDividers_NoBail(wl, cw, old) == buildLetterDividers(wl, cw)

\* createLetterDividers() with word list wl and a slider container cw wide;
\* old is the state it leaves alone when the list is empty.
createLetterDividers(wl, cw, old) ==
  IF Len(wl) = 0 THEN old
  ELSE IF isDelivered(wl) /\ <<Len(wl), cw>> \in DOMAIN builtLetterDividers
    THEN builtLetterDividers[<<Len(wl), cw>>]
  ELSE buildLetterDividers(wl, cw)

\* updateLetterOverlays(pageIndex) where it raises no error: the overlays
\* it leaves, overlays being those that exist.
updateLetterOverlays(pageIndex, overlays, cx) ==
  LET startWordIndex == pageIndex * cx.wordsPerPage
  IN  IF startWordIndex >= Len(cx.wordList) THEN overlays
      ELSE
        LET currentLetter ==
              toUpperCase(charAt0(cx.wordList[startWordIndex + 1]))
            currentIndex == alphabetIndexOf(currentLetter)
            lettersToShow ==
              (IF currentIndex > 0 THEN <<currentIndex - 1>> ELSE <<>>)
              \o <<currentIndex>>
              \o (IF currentIndex < Len(Alphabet) - 1
                    THEN <<currentIndex + 1>> ELSE <<>>)
            fits(i) == /\ i + 1 \in DOMAIN cx.lettersFitArray
                       /\ cx.lettersFitArray[i + 1]
            idx == letterIndices(cx.wordList)
            availableWidth == cx.sliderWidth - handleWidth
            edge(i) == IF i = 0 THEN RatInt(0)
                       ELSE IF i >= Len(Alphabet) THEN RatInt(availableWidth)
                       ELSE Rat(idx[Alphabet[i + 1]] * availableWidth,
                                Len(cx.wordList))
            overlay(i) ==
              LET letter == IF i = currentIndex THEN currentLetter
                            ELSE Alphabet[i + 1]
                  position == RatDivInt(RatAdd(edge(i), edge(i + 1)), 2)
              IN  [letter |-> letter,
                   left |-> RatAdd(position, Rat(handleWidth, 2)),
                   opacity |-> IF letter = currentLetter THEN "1" ELSE "0.6"]
            shown == SelectSeq(lettersToShow, fits)
        IN  IF currentIndex = -1 THEN overlays
            ELSE [k \in DOMAIN shown |-> overlay(shown[k])]

---------------------------------------------------------------------------
(* Page store.                                                             *)

\* createEmptyPage: a placeholder with its index and its fixed height.
createEmptyPage(pageIndex) ==
  [pageIndex |-> pageIndex, height |-> PageStyleHeight, children |-> <<>>]

\* columnItems filling the page row by row instead of column by column.
columnItems_RowMajor(pageIndex, colIndex, cx) ==
  LET startIndex == pageIndex * cx.wordsPerPage
      rows == {i \in 0..(cx.rowsPerColumn - 1) :
                 startIndex + i * ColumnsPerPage + colIndex < Len(cx.wordList)}
  IN  [k \in 1..Cardinality(rows) |->
         cx.wordList[startIndex + (k - 1) * ColumnsPerPage + colIndex + 1]]

\* The word items populatePage appends to column colIndex of page pageIndex.
columnItems(pageIndex, colIndex, cx) ==
  LET startIndex == pageIndex * cx.wordsPerPage
      first == startIndex + colIndex * cx.rowsPerColumn
      rows == {i \in 0..(cx.rowsPerColumn - 1) : first + i < Len(cx.wordList)}
  IN  [k \in 1..Cardinality(rows) |-> cx.wordList[first + (k - 1) + 1]]

\* populatePage without the check for a page that is populated already.
populatePage_NoGuard(pageContainer, pageIndex, cx) ==
  [pageContainer EXCEPT !.children =
     pageContainer.children \o
       [c \in 1..ColumnsPerPage |->
          [paddingTop |-> cx.verticalPadding,
           paddingBottom |-> cx.verticalPadding,
           items |-> columnItems(pageIndex, c - 1, cx)]]]

\* populatePage: three columns of words, unless the page has children.
populatePage(pageContainer, pageIndex, cx) ==
  IF Len(pageContainer.children) > 0 THEN pageContainer
  ELSE [pageContainer EXCEPT !.children =
          [c \in 1..ColumnsPerPage |->
             [paddingTop |-> cx.verticalPadding,
              paddingBottom |-> cx.verticalPadding,
              items |-> columnItems(pageIndex, c - 1, cx)]]]

\* clearPage removing the word items but leaving the column elements.
clearPage_KeepColumns(pageContainer) ==
  [pageContainer EXCEPT !.children =
     [c \in DOMAIN pageContainer.children |->
        [pageContainer.children[c] EXCEPT !.items = <<>>]]]

\* clearPage letting the placeholder collapse to no height.
clearPage_Collapse(pageContainer) ==
  [pageContainer EXCEPT !.children = <<>>, !.height = 0]

\* clearPage: pageContainer.replaceChildren().
clearPage(pageContainer) == [pageContainer EXCEPT !.children = <<>>]

\* visitPage keeping only the visible page itself populated.
visitPage_OnlyCurrent(page, i, newVisiblePageIndex, cx) ==
  LET shouldBePopulated == Abs(i - newVisiblePageIndex) < 1
  IN  IF shouldBePopulated /\ Len(page.children) = 0
        THEN populatePage(page, i, cx)
      ELSE IF ~shouldBePopulated /\ Len(page.children) > 0
        THEN clearPage(page)
      ELSE page

\* The loop body of updateVisiblePages without the branch that clears a page
\* outside the window.
visitPage_NeverClear(page, i, newVisiblePageIndex, cx) ==
  LET shouldBePopulated == Abs(i - newVisiblePageIndex) <= 1
  IN  IF shouldBePopulated /\ Len(page.children) = 0
        THEN populatePage(page, i, cx)
        ELSE page

\* The loop body of updateVisiblePages for display-area child i.
visitPage(page, i, newVisiblePageIndex, cx) ==
  LET shouldBePopulated == Abs(i - newVisiblePageIndex) <= 1
  IN  IF shouldBePopulated /\ Len(page.children) = 0
        THEN populatePage(page, i, cx)
      ELSE IF ~shouldBePopulated /\ Len(page.children) > 0
        THEN clearPage(page)
      ELSE page

\* Whether the loop of updateVisiblePages skips index i as invalid.
skipsIndex(i, totalPages) ==
  i < 0 \/ (IsFinite(totalPages) /\ i >= totalPages)

\* updateVisiblePages on the display state d (pages, currentVisiblePageIndex).
updateVisiblePages(newVisiblePageIndex, force, d, cx) ==
  IF newVisiblePageIndex = d.currentVisiblePageIndex /\ ~force
       /\ newVisiblePageIndex # NaN
    THEN d
  ELSE IF newVisiblePageIndex = NaN
    THEN [d EXCEPT !.currentVisiblePageIndex = NaN]
  ELSE IF newVisiblePageIndex = Infinity
    THEN [d EXCEPT !.hung = TRUE]
  ELSE
    LET totalPages == totalPagesOf(Len(cx.wordList), cx.wordsPerPage)
        visited == {i \in (newVisiblePageIndex - 2)..(newVisiblePageIndex + 2) :
                      ~skipsIndex(i, totalPages) /\ i + 1 \in DOMAIN d.pages}
    IN  [d EXCEPT
           !.pages = [k \in DOMAIN d.pages |->
                        IF (k - 1) \in visited
                          THEN visitPage(d.pages[k], k - 1, newVisiblePageIndex, cx)
                          ELSE d.pages[k]],
           !.currentVisiblePageIndex = newVisiblePageIndex]

\* loadAllPages without the loop that removes the children of the display
\* area: the new placeholders follow the old pages.
loadAllPages_KeepOld(d, cx) ==
  LET totalPages == totalPagesOf(Len(cx.wordList), cx.wordsPerPage)
  IN  IF totalPages = Infinity THEN [d EXCEPT !.hung = TRUE]
      ELSE
        LET n == IF totalPages = NaN THEN 0 ELSE Max(0, totalPages)
            fresh == [d EXCEPT !.pages = d.pages \o
                                  [k \in 1..n |-> createEmptyPage(k - 1)],
                               !.currentVisiblePageIndex = 0]
        IN  updateVisiblePages(0, TRUE, fresh, cx)

\* loadAllPages: discard every page, create the placeholders, show page 0.
loadAllPages(d, cx) ==
  LET totalPages == totalPagesOf(Len(cx.wordList), cx.wordsPerPage)
  IN  IF totalPages = Infinity THEN [d EXCEPT !.hung = TRUE]
      ELSE
        LET n == IF totalPages = NaN THEN 0 ELSE Max(0, totalPages)
            fresh == [d EXCEPT !.pages = [k \in 1..n |-> createEmptyPage(k - 1)],
                               !.currentVisiblePageIndex = 0]
        IN  updateVisiblePages(0, TRUE, fresh, cx)

---------------------------------------------------------------------------
(* Position synchronizer.                                                  *)

\* pageIndexOfPosition without the step that lowers totalPages to
\* totalPages - 1.
pageIndexOfPosition_NoClamp(position, sw, len, wpp) ==
  LET totalPages == totalPagesOf(len, wpp)
  IN  IF totalPages = NaN THEN NaN
      ELSE IF totalPages = Infinity
        THEN (IF position[1] = 0 THEN NaN ELSE Infinity)
      ELSE RatFloor(RatDivInt(RatMulInt(position, totalPages),
                              sw - handleWidth))

\* pageIndexOfPosition scaling by totalPages - 1 instead of totalPages.
pageIndexOfPosition_PerLast(position, sw, len, wpp) ==
  LET totalPages == totalPagesOf(len, wpp)
      raw == RatFloor(RatDivInt(RatMulInt(position, totalPages - 1),
                                sw - handleWidth))
  IN  IF raw >= totalPages THEN totalPages - 1 ELSE raw

\* pageIndexOfPosition rounding to the nearest page instead of down.
pageIndexOfPosition_Round(position, sw, len, wpp) ==
  LET totalPages == totalPagesOf(len, wpp)
      scaled == RatDivInt(RatMulInt(position, totalPages), sw - handleWidth)
      raw == (2 * scaled[1] + scaled[2]) \div (2 * scaled[2])
  IN  IF raw >= totalPages THEN totalPages - 1 ELSE raw

\* pageIndexOfPosition rounding up instead of down.
pageIndexOfPosition_Ceil(position, sw, len, wpp) ==
  LET totalPages == totalPagesOf(len, wpp)
      raw == IF totalPages = NaN THEN NaN
             ELSE IF totalPages = Infinity
               THEN (IF position[1] = 0 THEN NaN ELSE Infinity)
             ELSE -RatFloor(RatDivInt(RatMulInt(position, -totalPages),
                                      sw - handleWidth))
  IN  IF IsFinite(raw) /\ raw >= totalPages THEN totalPages - 1 ELSE raw

\* The page index updateDisplay derives from a slider position:
\* floor((position / (sliderWidth - handleWidth)) * totalPages), lowered to
\* totalPages - 1 when it reaches totalPages.
pageIndexOfPosition(position, sw, len, wpp) ==
  LET totalPages == totalPagesOf(len, wpp)
      raw == IF totalPages = NaN THEN NaN
             ELSE IF totalPages = Infinity
               THEN (IF position[1] = 0 THEN NaN ELSE Infinity)
             ELSE RatFloor(RatDivInt(RatMulInt(position, totalPages),
                                     sw - handleWidth))
  IN  IF IsFinite(raw) /\ raw >= totalPages THEN totalPages - 1 ELSE raw

\* targetPage.scrollIntoView({block: 'start'}): the page's top comes to the
\* top of the display area, as far as the scroll range allows.
scrollIntoView(pageIndex, d, cx) ==
  [d EXCEPT !.scrollTop =
     Min(PageTop(pageIndex), MaxScrollTop(Len(d.pages), cx.displayHeight))]

\* Whether updateLetterOverlays(pageIndex) raises a TypeError: the first word
\* of the page is undefined and charAt is called on it.
updateLetterOverlaysThrows(pageIndex, cx) ==
  \/ pageIndex = NaN
  \/ pageIndex * cx.wordsPerPage < 0

\* clearTimeout(id) on the pending timeouts.
clearTimeout(id, pending) == {t \in pending : t.id # id}

\* The first statements of updateDisplay without the clearTimeout: snapping
\* is switched on and the pending timer is left to run.
enableScrollSnap_KeepTimer(d) ==
  [d EXCEPT !.scrollSnapType = "y mandatory"]

\* The first statements of updateDisplay: scroll snapping is switched on and
\* the timer that would switch it on is cancelled.
enableScrollSnap(d) ==
  [d EXCEPT !.scrollSnapType = "y mandatory",
            !.timers = IF d.scrollSnapTimer # 0
                         THEN clearTimeout(d.scrollSnapTimer, d.timers)
                         ELSE d.timers,
            !.scrollSnapTimer = 0]

\* updateDisplay calling updateLetterOverlays whether or not a drag is in
\* progress.
updateDisplay_AlwaysOverlays(position, d, cx) ==
  LET pageIndex == pageIndexOfPosition(position, cx.sliderWidth,
                                       Len(cx.wordList), cx.wordsPerPage)
      d1 == updateVisiblePages(pageIndex, FALSE, enableScrollSnap(d), cx)
      d2 == IF IsFinite(pageIndex) /\ pageIndex + 1 \in DOMAIN d1.pages
              THEN scrollIntoView(pageIndex, d1, cx)
              ELSE d1
  IN  IF d1.hung THEN d1
      ELSE IF updateLetterOverlaysThrows(pageIndex, cx)
        THEN [d2 EXCEPT !.threw = TRUE]
      ELSE [d2 EXCEPT !.activeLetterOverlays =
              updateLetterOverlays(pageIndex, d2.activeLetterOverlays, cx)]

\* updateDisplay(position).
updateDisplay(position, d, cx) ==
  LET pageIndex == pageIndexOfPosition(position, cx.sliderWidth,
                                       Len(cx.wordList), cx.wordsPerPage)
      d1 == updateVisiblePages(pageIndex, FALSE, enableScrollSnap(d), cx)
      d2 == IF IsFinite(pageIndex) /\ pageIndex + 1 \in DOMAIN d1.pages
              THEN scrollIntoView(pageIndex, d1, cx)
              ELSE d1
  IN  IF d1.hung THEN d1
      ELSE IF cx.isDragging /\ updateLetterOverlaysThrows(pageIndex, cx)
        THEN [d2 EXCEPT !.threw = TRUE]
      ELSE IF cx.isDragging
        THEN [d2 EXCEPT !.activeLetterOverlays =
                updateLetterOverlays(pageIndex, d2.activeLetterOverlays, cx)]
      ELSE d2

\* setSliderPosition(x, updateWords): x is a rational.
setSliderPosition(x, updateWords, d, cx) ==
  LET newPosition ==
        RatMax(RatInt(0), RatMin(RatInt(cx.sliderWidth - handleWidth), x))
      d1 == [d EXCEPT !.handleLeft = newPosition,
                      !.currentPosition = newPosition]
  IN  IF updateWords THEN updateDisplay(newPosition, d1, cx) ELSE d1

\* The page syncSliderWithScroll takes as visible:
\* floor((scrollTop + offsetHeight / 2) / pageHeight).
pageIndexOfScroll(top, h) == (2 * top + h) \div (2 * PageOffsetHeight)

\* The divisor of the normalized position without the case for one page.
syncDivisor_NoGuard(totalPages) == totalPages - 1

\* What syncSliderWithScroll divides the page index by.
syncDivisor(totalPages) == IF totalPages = 1 THEN 1 ELSE totalPages - 1

\* The slider position syncSliderWithScroll derives from a page index.
positionOfPage(pageIndex, totalPages, sw) ==
  Rat(pageIndex * (sw - handleWidth), syncDivisor(totalPages))

\* syncSliderWithScroll moving the slider also while it is dragged.
syncSliderWithScroll_AlsoDragging(d, cx) ==
  IF Len(d.pages) = 0 THEN d
  ELSE
    LET pageIndex == pageIndexOfScroll(d.scrollTop, cx.displayHeight)
    IN  IF pageIndex >= 0 /\ pageIndex < Len(d.pages)
          THEN LET d1 == updateVisiblePages(pageIndex, FALSE, d, cx)
                   totalPages == totalPagesOf(Len(cx.wordList), cx.wordsPerPage)
               IN  setSliderPosition(
                     positionOfPage(pageIndex, totalPages, cx.sliderWidth),
                     FALSE, d1, cx)
          ELSE d

\* syncSliderWithScroll moving the slider with a normal update instead of a
\* silent one.
syncSliderWithScroll_Loud(d, cx) ==
  IF Len(d.pages) = 0 THEN d
  ELSE
    LET pageIndex == pageIndexOfScroll(d.scrollTop, cx.displayHeight)
    IN  IF pageIndex >= 0 /\ pageIndex < Len(d.pages)
          THEN LET d1 == updateVisiblePages(pageIndex, FALSE, d, cx)
                   totalPages == totalPagesOf(Len(cx.wordList), cx.wordsPerPage)
               IN  IF ~cx.isDragging
                     THEN setSliderPosition(
                            positionOfPage(pageIndex, totalPages, cx.sliderWidth),
                            TRUE, d1, cx)
                     ELSE d1
          ELSE d

\* syncSliderWithScroll().
syncSliderWithScroll(d, cx) ==
  IF Len(d.pages) = 0 THEN d
  ELSE
    LET pageIndex == pageIndexOfScroll(d.scrollTop, cx.displayHeight)
    IN  IF pageIndex >= 0 /\ pageIndex < Len(d.pages)
          THEN LET d1 == updateVisiblePages(pageIndex, FALSE, d, cx)
                   totalPages == totalPagesOf(Len(cx.wordList), cx.wordsPerPage)
               IN  IF ~cx.isDragging
                     THEN setSliderPosition(
                            positionOfPage(pageIndex, totalPages, cx.sliderWidth),
                            FALSE, d1, cx)
                     ELSE d1
          ELSE d

\* The animation frame runs every queued callback in turn.
RECURSIVE runCallbacks(_, _, _)
runCallbacks(n, d, cx) ==
  IF n = 0 THEN d ELSE runCallbacks(n - 1, syncSliderWithScroll(d, cx), cx)

---------------------------------------------------------------------------
(* State and handlers.                                                     *)

\* The part of the state the page store and the synchronizer write.
Display ==
  [pages |-> pages, currentVisiblePageIndex |-> currentVisiblePageIndex,
   scrollTop |-> scrollTop, currentPosition |-> currentPosition,
   handleLeft |-> handleLeft, activeLetterOverlays |-> activeLetterOverlays,
   hung |-> FALSE, threw |-> FALSE, scrollSnapType |-> scrollSnapType,
   scrollSnapTimer |-> scrollSnapTimer, timers |-> timers]

\* The scroll-snap setting and its timer.
snapState == <<scrollSnapType, scrollSnapTimer, timers>>

Cx == Context(wordList, rowsPerColumn, wordsPerPage, verticalPadding,
              sliderWidth, displayHeight, isDragging, lettersFitArray)

\* What createLetterDividers writes.
LetterState == [dividers |-> letterDividers, fit |-> lettersFitArray]

\* The state a handler leaves: d is what it wrote, h the viewport height and
\* listening whether the scroll listener exists when the scroll event of this
\* handler is dispatched.  A scroll position beyond the scroll range is
\* brought back by the next layout; a changed scroll position fires one
\* scroll event, whose listener queues one animation-frame callback.
Commit(d, h, listening) ==
  /\ pages' = d.pages
  /\ currentVisiblePageIndex' = d.currentVisiblePageIndex
  /\ currentPosition' = d.currentPosition
  /\ handleLeft' = d.handleLeft
  /\ activeLetterOverlays' = d.activeLetterOverlays
  /\ scrollTop' = Min(d.scrollTop, MaxScrollTop(Len(d.pages), h))
  /\ rafQueue' = IF listening /\ scrollTop' # scrollTop
                   THEN rafQueue + 1 ELSE rafQueue
  /\ hung' = d.hung
  /\ threw' = (threw \/ d.threw)
  /\ scrollSnapType' = d.scrollSnapType
  /\ scrollSnapTimer' = d.scrollSnapTimer
  /\ timers' = d.timers

\* No direct call of the page store was made.
NoCalls == [stage |-> 0, page |-> 0, content |-> <<>>, again |-> FALSE]

Init ==
  /\ wordList = <<>>
  /\ fontLoaded = FALSE
  /\ wordsLoaded = FALSE
  /\ fetchState = "pending"
  /\ initialized = FALSE
  /\ initializeCalls = 0
  /\ \E v \in Viewports : displayHeight = v[1] /\ containerWidth = v[2]
  /\ sliderWidth = containerWidth
  /\ currentPosition = RatInt(0)
  /\ handleLeft = RatInt(0)
  /\ isDragging = FALSE
  /\ startX = 0
  /\ mouseListeners = FALSE
  /\ touchListeners = FALSE
  /\ rowsPerColumn = 0
  /\ wordsPerPage = 0
  /\ verticalPadding = 0
  /\ pages = <<>>
  /\ currentVisiblePageIndex = 0
  /\ scrollTop = 0
  /\ rafQueue = 0
  /\ hung = FALSE
  /\ threw = FALSE
  /\ roundTrip = NoCalls
  /\ letterDividers = <<>>
  /\ lettersFitArray = <<>>
  /\ activeLetterOverlays = <<>>
  /\ ignoredEvents = <<>>
  /\ scrollSnapType = "y mandatory"
  /\ scrollSnapTimer = 0
  /\ timers = {}
  /\ browser = "chrome"

\* The event loop runs handlers while no handler is stuck.
Running == ~hung

\* The model lets a handler that may scroll the list run only while the
\* callback queue has room.
CanScroll == rafQueue < MaxQueue

\* initializeInterface() with word list wl: layout, letter dividers, pages,
\* slider at 0, then the scroll and resize listeners (not reached when a
\* call before raises).
initializeInterface(wl) ==
  LET rows == calculateRows(displayHeight)
      wpp == rows * ColumnsPerPage
      vp == calculateVerticalPadding(displayHeight, rows)
      ls == createLetterDividers(wl, containerWidth, LetterState)
      cx == Context(wl, rows, wpp, vp, sliderWidth, displayHeight, isDragging,
                    ls.fit)
      d1 == loadAllPages(Display, cx)
      d2 == IF d1.hung THEN d1 ELSE setSliderPosition(RatInt(0), TRUE, d1, cx)
  IN  /\ rowsPerColumn' = rows
      /\ wordsPerPage' = wpp
      /\ verticalPadding' = vp
      /\ letterDividers' = ls.dividers
      /\ lettersFitArray' = ls.fit
      /\ initialized' = (~d2.hung /\ ~d2.threw)
      /\ initializeCalls' = initializeCalls + 1
      /\ Commit(d2, displayHeight, initialized')

\* checkAllLoaded() that initializes as soon as one of the two flags is set.
checkAllLoaded_Either(font, words, wl) ==
  IF font \/ words
    THEN initializeInterface(wl)
    ELSE UNCHANGED <<initialized, initializeCalls, rowsPerColumn, wordsPerPage,
                     verticalPadding, pages, currentVisiblePageIndex,
                     currentPosition, handleLeft, scrollTop, rafQueue, hung,
                     threw, letterDividers, lettersFitArray,
                     activeLetterOverlays, snapState>>

\* checkAllLoaded() after one of the two flags was set.
checkAllLoaded(font, words, wl) ==
  IF font /\ words
    THEN initializeInterface(wl)
    ELSE UNCHANGED <<initialized, initializeCalls, rowsPerColumn, wordsPerPage,
                     verticalPadding, pages, currentVisiblePageIndex, currentPosition,
                     handleLeft, scrollTop, rafQueue, hung, threw,
                     letterDividers, lettersFitArray, activeLetterOverlays,
                     snapState>>

\* The font observer's timeout callback: fontLoaded = true; checkAllLoaded().
FontReady ==
  /\ Running /\ CanScroll /\ ~fontLoaded
  /\ fontLoaded' = TRUE
  /\ checkAllLoaded(TRUE, wordsLoaded, wordList)
  /\ UNCHANGED <<wordList, wordsLoaded, fetchState, displayHeight,
                 containerWidth, sliderWidth, isDragging, startX,
                 mouseListeners, touchListeners, roundTrip, ignoredEvents,
                 browser>>

\* The fetch delivers the list: wordList = data; wordsLoaded = true;
\* checkAllLoaded().
FetchOk(n) ==
  /\ Running /\ CanScroll /\ fetchState = "pending"
  /\ fetchState' = "ok"
  /\ wordList' = WordListOf(n)
  /\ wordsLoaded' = TRUE
  /\ checkAllLoaded(fontLoaded, TRUE, wordList')
  /\ UNCHANGED <<fontLoaded, displayHeight, containerWidth, sliderWidth,
                 isDragging, startX, mouseListeners, touchListeners, roundTrip,
                 ignoredEvents, browser>>

\* The fetch fails: the error is logged and nothing else happens.
FetchFail ==
  /\ Running /\ fetchState = "pending"
  /\ fetchState' = "failed"
  /\ UNCHANGED <<wordList, fontLoaded, wordsLoaded, initialized, displayHeight,
                 containerWidth, sliderWidth, currentPosition, handleLeft,
                 isDragging, startX, mouseListeners, touchListeners,
                 rowsPerColumn, wordsPerPage, verticalPadding, pages,
                 currentVisiblePageIndex, scrollTop, rafQueue, hung, threw,
                 roundTrip, letterDividers, lettersFitArray,
                 activeLetterOverlays, ignoredEvents, snapState, browser,
                 initializeCalls>>

\* What the load callbacks and the resize listeners leave alone or set
\* themselves; the pointer handlers below leave all of it unchanged.
loadAndLayout == <<wordList, fontLoaded, wordsLoaded, fetchState, initialized,
                   displayHeight, containerWidth, sliderWidth, rowsPerColumn,
                   wordsPerPage, verticalPadding, roundTrip, letterDividers,
                   lettersFitArray, ignoredEvents, browser, initializeCalls>>

\* mousedown on the handle, grabbed g pixels from its left edge.
HandleMouseDown(g) ==
  /\ Running
  /\ isDragging' = TRUE
  /\ startX' = g
  /\ mouseListeners' = TRUE
  /\ UNCHANGED <<loadAndLayout, touchListeners, currentPosition, handleLeft,
                 pages, currentVisiblePageIndex, scrollTop, rafQueue, hung,
                 threw, activeLetterOverlays, snapState>>

\* touchstart on the handle.
HandleTouchStart(g) ==
  /\ Running
  /\ isDragging' = TRUE
  /\ startX' = g
  /\ touchListeners' = TRUE
  /\ UNCHANGED <<loadAndLayout, mouseListeners, currentPosition, handleLeft,
                 pages, currentVisiblePageIndex, scrollTop, rafQueue, hung,
                 threw, activeLetterOverlays, snapState>>

\* Whether pointer coordinate x lies on the handle.
onHandle(x) ==
  /\ RatLE(handleLeft, RatInt(x))
  /\ RatLE(RatInt(x - handleWidth), handleLeft)

\* The track listener putting the handle's left edge, not its centre, at
\* the pointer.
TrackMouseDown_LeftEdge(x) ==
  /\ Running /\ CanScroll
  /\ 0 <= x /\ x <= containerWidth /\ ~onHandle(x)
  /\ \E d \in {setSliderPosition(RatInt(x), TRUE, Display, Cx)} :
     \E done \in {~d.hung /\ ~d.threw} :
         /\ Commit(d, displayHeight, initialized)
         /\ isDragging' = (IF done THEN TRUE ELSE isDragging)
         /\ startX' = (IF done THEN 0 ELSE startX)
         /\ mouseListeners' = (IF done THEN TRUE ELSE mouseListeners)
  /\ UNCHANGED <<loadAndLayout, touchListeners>>

\* mousedown on the slider container outside the handle, at x.
TrackMouseDown(x) ==
  /\ Running /\ CanScroll
  /\ 0 <= x /\ x <= containerWidth /\ ~onHandle(x)
  /\ \E d \in {setSliderPosition(RatInt(x - handleWidth \div 2), TRUE,
                                  Display, Cx)} :
     \E done \in {~d.hung /\ ~d.threw} :
         /\ Commit(d, displayHeight, initialized)
         /\ isDragging' = (IF done THEN TRUE ELSE isDragging)
         /\ startX' = (IF done THEN handleWidth \div 2 ELSE startX)
         /\ mouseListeners' = (IF done THEN TRUE ELSE mouseListeners)
  /\ UNCHANGED <<loadAndLayout, touchListeners>>

\* onMouseMove / onTouchMove without the test of isDragging.
pointerMove_NoGuard(x) ==
  Commit(setSliderPosition(RatInt(x - startX), TRUE, Display, Cx),
         displayHeight, initialized)

\* onMouseMove / onTouchMove with the pointer at x.
pointerMove(x) ==
  IF isDragging
    THEN Commit(setSliderPosition(RatInt(x - startX), TRUE, Display, Cx),
                displayHeight, initialized)
    ELSE UNCHANGED <<pages, currentVisiblePageIndex, currentPosition,
                     handleLeft, scrollTop, rafQueue, hung, threw,
                     activeLetterOverlays, snapState>>

MouseMove(x) ==
  /\ Running /\ CanScroll /\ mouseListeners
  /\ pointerMove(x)
  /\ UNCHANGED <<loadAndLayout, isDragging, startX, mouseListeners,
                 touchListeners>>

TouchMove(x) ==
  /\ Running /\ CanScroll /\ touchListeners
  /\ pointerMove(x)
  /\ UNCHANGED <<loadAndLayout, isDragging, startX, mouseListeners,
                 touchListeners>>

\* onMouseUp.
MouseUp ==
  /\ Running /\ mouseListeners
  /\ isDragging' = FALSE
  /\ mouseListeners' = FALSE
  /\ activeLetterOverlays' = <<>>
  /\ UNCHANGED <<loadAndLayout, startX, touchListeners, currentPosition,
                 handleLeft, pages, currentVisiblePageIndex, scrollTop,
                 rafQueue, hung, threw, snapState>>

\* onTouchEnd.
TouchEnd ==
  /\ Running /\ touchListeners
  /\ isDragging' = FALSE
  /\ touchListeners' = FALSE
  /\ activeLetterOverlays' = <<>>
  /\ UNCHANGED <<loadAndLayout, startX, mouseListeners, currentPosition,
                 handleLeft, pages, currentVisiblePageIndex, scrollTop,
                 rafQueue, hung, threw, snapState>>

\* A pointer event of the given type for which the script registers no
\* listener: no code runs.
unheard(type) ==
  /\ ignoredEvents' = Append(ignoredEvents, type)
  /\ UNCHANGED <<wordList, fontLoaded, wordsLoaded, fetchState, initialized,
                 displayHeight, containerWidth, sliderWidth, currentPosition,
                 handleLeft, isDragging, startX, mouseListeners,
                 touchListeners, rowsPerColumn, wordsPerPage, verticalPadding,
                 pages, currentVisiblePageIndex, scrollTop, rafQueue, hung,
                 threw, roundTrip, letterDividers, lettersFitArray,
                 activeLetterOverlays, snapState, browser, initializeCalls>>

\* The mouse pointer leaves the document.
MouseLeave ==
  /\ Running /\ Len(ignoredEvents) < MaxIgnored
  /\ unheard("mouseleave")

\* The browser cancels the touch.
TouchCancel ==
  /\ Running /\ Len(ignoredEvents) < MaxIgnored
  /\ unheard("touchcancel")

\* The scroll positions a wheel, touch or keyboard scroll may leave.
ScrollTargets ==
  {Min(PageTop(i) + o, MaxScrollTop(Len(pages), displayHeight)) :
     i \in 0..(Len(pages) - 1), o \in ScrollOffsets}

\* The user scrolls the list to y; the scroll listener, once it exists,
\* calls requestAnimationFrame(syncSliderWithScroll).
Scroll(y) ==
  /\ Running /\ CanScroll
  /\ 0 <= y /\ y <= MaxScrollTop(Len(pages), displayHeight) /\ y # scrollTop
  /\ scrollTop' = y
  /\ rafQueue' = IF initialized THEN rafQueue + 1 ELSE rafQueue
  /\ UNCHANGED <<loadAndLayout, isDragging, startX, mouseListeners,
                 touchListeners, currentPosition, handleLeft, pages,
                 currentVisiblePageIndex, hung, threw, activeLetterOverlays,
                 snapState>>

\* An animation frame: the queued callbacks run and leave the queue; a
\* scroll position they changed fires a scroll event, whose listener queues a
\* callback for the next frame.
AnimationFrame ==
  /\ ~hung /\ rafQueue > 0
  /\ LET d == runCallbacks(rafQueue, Display, Cx)
     IN  /\ pages' = d.pages
         /\ currentVisiblePageIndex' = d.currentVisiblePageIndex
         /\ currentPosition' = d.currentPosition
         /\ handleLeft' = d.handleLeft
         /\ activeLetterOverlays' = d.activeLetterOverlays
         /\ scrollTop' = Min(d.scrollTop,
                             MaxScrollTop(Len(d.pages), displayHeight))
         /\ rafQueue' = IF scrollTop' # scrollTop THEN 1 ELSE 0
         /\ hung' = d.hung
         /\ threw' = (threw \/ d.threw)
         /\ scrollSnapType' = d.scrollSnapType
         /\ scrollSnapTimer' = d.scrollSnapTimer
         /\ timers' = d.timers
  /\ UNCHANGED <<loadAndLayout, isDragging, startX, mouseListeners,
                 touchListeners>>

\* The resize listener registered when the script loads (part_001:702-721),
\* run on display state d with the new viewport height h.
resizeRebuild(h, d) ==
  LET rows == calculateRows(h)
      wpp == rows * ColumnsPerPage
      vp == calculateVerticalPadding(h, rows)
      cx == Context(wordList, rows, wpp, vp, sliderWidth, h, isDragging,
                    lettersFitArray)
      shown(d1) ==
        IF d1.hung THEN d1 ELSE updateDisplay(d.currentPosition, d1, cx)
  IN  shown(loadAllPages(d, cx))

\* The second resize listener keeping the slider's pixel offset instead of
\* its share of the track.
resizeSlider_KeepPixels(h, w, d, fit) ==
  LET rows == calculateRows(h)
      cx == Context(wordList, rows, rows * ColumnsPerPage,
                    calculateVerticalPadding(h, rows), w, h, isDragging, fit)
  IN  setSliderPosition(d.currentPosition, TRUE, d, cx)

\* The resize listener registered by initializeInterface (part_001:690-698),
\* run on display state d with the new container width w and the
\* lettersFitArray fit the first listener left.
resizeSlider(h, w, d, fit) ==
  LET rows == calculateRows(h)
      cx == Context(wordList, rows, rows * ColumnsPerPage,
                    calculateVerticalPadding(h, rows), w, h, isDragging, fit)
      scaled == Rat(d.currentPosition[1] * (w - handleWidth),
                    d.currentPosition[2] * (sliderWidth - handleWidth))
  IN  setSliderPosition(scaled, TRUE, d, cx)

\* The window is resized: the viewport becomes h high and the slider
\* container w wide, and the resize listeners run in registration order.
Resize(h, w) ==
  /\ Running /\ CanScroll
  /\ displayHeight' = h
  /\ containerWidth' = w
  /\ rowsPerColumn' = calculateRows(h)
  /\ wordsPerPage' = rowsPerColumn' * ColumnsPerPage
  /\ verticalPadding' = calculateVerticalPadding(h, rowsPerColumn')
  /\ \E d1 \in {resizeRebuild(h, Display)} :
     \E ls1 \in {IF d1.hung \/ d1.threw THEN LetterState
                  ELSE createLetterDividers(wordList, w, LetterState)} :
     \E second \in {initialized /\ ~d1.hung} :
     \E d2 \in {IF second
                   THEN resizeSlider(h, w, [d1 EXCEPT !.threw = FALSE], ls1.fit)
                   ELSE d1} :
     \E ls2 \in {IF second /\ ~d2.threw
                    THEN createLetterDividers(wordList, w, ls1)
                    ELSE ls1} :
       /\ sliderWidth' = (IF second THEN w ELSE sliderWidth)
       /\ letterDividers' = ls2.dividers
       /\ lettersFitArray' = ls2.fit
       /\ Commit([d2 EXCEPT !.threw = d1.threw \/ d2.threw], h, initialized)
  /\ UNCHANGED <<wordList, fontLoaded, wordsLoaded, fetchState, initialized,
                 isDragging, startX, mouseListeners, touchListeners, roundTrip,
                 ignoredEvents, browser, initializeCalls>>

\* setTimeout returns an id no pending timeout has.
setTimeoutId(pending) ==
  CHOOSE id \in 1..(Cardinality(pending) + 1) :
    \A t \in pending : t.id # id

\* disableScrollSnap without the clearTimeout of the existing timer.
disableScrollSnap_NoClear(d) ==
  LET id == setTimeoutId(d.timers)
  IN  [d EXCEPT !.scrollSnapType = "none",
                !.timers = d.timers \cup {[id |-> id, remaining |-> SnapDelay]},
                !.scrollSnapTimer = id]

\* disableScrollSnap().
disableScrollSnap(d) ==
  LET kept == IF d.scrollSnapTimer # 0
                THEN clearTimeout(d.scrollSnapTimer, d.timers)
                ELSE d.timers
      id == setTimeoutId(kept)
  IN  [d EXCEPT !.scrollSnapType = "none",
                !.timers = kept \cup {[id |-> id, remaining |-> SnapDelay]},
                !.scrollSnapTimer = id]

\* The wheel events of the model, as <<wheelDeltaY, deltaY>>: a notch of a
\* mouse wheel, a trackpad movement and a horizontal movement.
WheelEvents == {<<-120, 100>>, <<-3, 1>>, <<0, 0>>}

\* What getBrowser() may return.
Browsers == {"chrome", "firefox", "safari", "other"}

\* The wheel listener without the test of the browser.
wheelDisablesSnap_AnyBrowser(e) == ~(e[1] = -3 * e[2])

\* Whether the wheel listener calls disableScrollSnap for event e.
wheelDisablesSnap(e) ==
  /\ browser = "chrome"
  /\ ~(e[1] = -3 * e[2])

\* A wheel event on the display area; the listener exists once
\* initializeInterface has run.
Wheel(e) ==
  /\ Running /\ initialized
  /\ \E d \in {IF wheelDisablesSnap(e) THEN disableScrollSnap(Display)
                 ELSE Display} :
       /\ scrollSnapType' = d.scrollSnapType
       /\ scrollSnapTimer' = d.scrollSnapTimer
       /\ timers' = d.timers
  /\ UNCHANGED <<loadAndLayout, isDragging, startX, mouseListeners,
                 touchListeners, currentPosition, handleLeft, pages,
                 currentVisiblePageIndex, scrollTop, rafQueue, hung, threw,
                 activeLetterOverlays>>

\* The callback of a timeout runs once its delay has passed.
SnapTimerFires ==
  /\ Running
  /\ \E t \in timers : t.remaining = 0 /\ timers' = timers \ {t}
  /\ scrollSnapType' = "y mandatory"
  /\ scrollSnapTimer' = 0
  /\ UNCHANGED <<loadAndLayout, isDragging, startX, mouseListeners,
                 touchListeners, currentPosition, handleLeft, pages,
                 currentVisiblePageIndex, scrollTop, rafQueue, hung, threw,
                 activeLetterOverlays>>

\* The time to the next expiry of a pending timeout.
nextExpiry ==
  CHOOSE r \in {t.remaining : t \in timers} :
    \A t \in timers : r <= t.remaining

\* Time passes, at most up to the next expiry.
Tick ==
  /\ timers # {}
  /\ \A t \in timers : t.remaining > 0
  /\ timers' = {[t EXCEPT !.remaining = @ - Min(TickMs, nextExpiry)] :
                  t \in timers}
  /\ UNCHANGED <<loadAndLayout, isDragging, startX, mouseListeners,
                 touchListeners, currentPosition, handleLeft, pages,
                 currentVisiblePageIndex, scrollTop, rafQueue, hung, threw,
                 activeLetterOverlays, scrollSnapType, scrollSnapTimer>>

Next ==
  \/ FontReady
  \/ \E n \in ListLengths : FetchOk(n)
  \/ FetchFail
  \/ \E g \in GrabOffsets : HandleMouseDown(g)
  \/ \E g \in GrabOffsets : HandleTouchStart(g)
  \/ \E x \in PointerXs : TrackMouseDown(x)
  \/ \E x \in PointerXs : MouseMove(x)
  \/ \E x \in PointerXs : TouchMove(x)
  \/ MouseUp
  \/ TouchEnd
  \/ \E y \in ScrollTargets : Scroll(y)
  \/ AnimationFrame
  \/ \E v \in Viewports : Resize(v[1], v[2])

Spec == Init /\ [][Next]_vars

---------------------------------------------------------------------------
(* The page store called directly: populatePage and clearPage applied to   *)
(* the pages in any order, from the state initializeInterface leaves.      *)

\* Lengths of the word lists of PageSpec.
PageListLengths == 1..MaxWords

\* The state right after initializeInterface on n words in viewport v.
InitializedWith(n, v) ==
    LET rows == calculateRows(v[1])
        wpp == rows * ColumnsPerPage
        vp == calculateVerticalPadding(v[1], rows)
        ls == createLetterDividers(WordListOf(n), v[2],
                                   [dividers |-> <<>>, fit |-> <<>>])
        cx == Context(WordListOf(n), rows, wpp, vp, v[2], v[1], FALSE, ls.fit)
        d0 == [pages |-> <<>>, currentVisiblePageIndex |-> 0, scrollTop |-> 0,
               currentPosition |-> RatInt(0), handleLeft |-> RatInt(0),
               activeLetterOverlays |-> <<>>, hung |-> FALSE, threw |-> FALSE,
               scrollSnapType |-> "y mandatory", scrollSnapTimer |-> 0,
               timers |-> {}]
        d == setSliderPosition(RatInt(0), TRUE, loadAllPages(d0, cx), cx)
    IN  /\ wordList = WordListOf(n)
        /\ fontLoaded = TRUE
        /\ wordsLoaded = TRUE
        /\ fetchState = "ok"
        /\ initialized = TRUE
        /\ initializeCalls = 1
        /\ displayHeight = v[1]
        /\ containerWidth = v[2]
        /\ sliderWidth = v[2]
        /\ currentPosition = d.currentPosition
        /\ handleLeft = d.handleLeft
        /\ isDragging = FALSE
        /\ startX = 0
        /\ mouseListeners = FALSE
        /\ touchListeners = FALSE
        /\ rowsPerColumn = rows
        /\ wordsPerPage = wpp
        /\ verticalPadding = vp
        /\ pages = d.pages
        /\ currentVisiblePageIndex = d.currentVisiblePageIndex
        /\ scrollTop = d.scrollTop
        /\ rafQueue = 0
        /\ hung = FALSE
        /\ threw = FALSE
        /\ roundTrip = NoCalls
        /\ letterDividers = ls.dividers
        /\ lettersFitArray = ls.fit
        /\ activeLetterOverlays = d.activeLetterOverlays
        /\ ignoredEvents = <<>>
        /\ scrollSnapType = d.scrollSnapType
        /\ scrollSnapTimer = d.scrollSnapTimer
        /\ timers = d.timers

InitPage ==
  /\ \E n \in PageListLengths, v \in Viewports : InitializedWith(n, v)
  /\ browser = "chrome"

\* What a direct call of the page store leaves alone.
pageStoreFrame == <<wordList, fontLoaded, wordsLoaded, fetchState, initialized,
                    displayHeight, containerWidth, sliderWidth, currentPosition,
                    handleLeft, isDragging, startX, mouseListeners,
                    touchListeners, rowsPerColumn, wordsPerPage, verticalPadding,
                    currentVisiblePageIndex, scrollTop, rafQueue, hung, threw,
                    letterDividers, lettersFitArray, activeLetterOverlays,
                    ignoredEvents, snapState, browser, initializeCalls>>

\* populatePage(displayArea.children[i], i).  roundTrip follows one page
\* through its first populate (stage 1), a clear (2) and the populate after
\* it (3), and notes a call on a page that was populated already.
PopulateCall(i) ==
  /\ i + 1 \in DOMAIN pages
  /\ pages' = [pages EXCEPT ![i + 1] = populatePage(pages[i + 1], i, Cx)]
  /\ roundTrip' =
       IF roundTrip.stage = 2 /\ roundTrip.page = i
         THEN [roundTrip EXCEPT !.stage = 3]
       ELSE IF Len(pages[i + 1].children) > 0
         THEN [roundTrip EXCEPT !.again = TRUE]
       ELSE IF roundTrip.stage = 0
         THEN [roundTrip EXCEPT !.stage = 1, !.page = i,
                                !.content = pages'[i + 1].children]
       ELSE roundTrip
  /\ UNCHANGED pageStoreFrame

\* clearPage(displayArea.children[i]).
ClearCall(i) ==
  /\ i + 1 \in DOMAIN pages
  /\ pages' = [pages EXCEPT ![i + 1] = clearPage(pages[i + 1])]
  /\ roundTrip' =
       IF roundTrip.stage \in {1, 3} /\ roundTrip.page = i
         THEN [roundTrip EXCEPT !.stage = 2]
         ELSE roundTrip
  /\ UNCHANGED pageStoreFrame

NextPage ==
  \/ \E i \in 0..(MaxWords - 1) : PopulateCall(i)
  \/ \E i \in 0..(MaxWords - 1) : ClearCall(i)

PageSpec == InitPage /\ [][NextPage]_vars

---------------------------------------------------------------------------
(* The slider dragged over its whole track, from the state                 *)
(* initializeInterface leaves.                                             *)

\* Lengths of the word lists of SliderSpec.
SliderListLengths == {1, 20, MaxWords}

\* The pointer is sampled every SliderStep pixels, from left of the track to
\* right of it.
SliderStep == 10

SliderXs == {x \in -20..700 : x % SliderStep = 0}

InitSlider ==
  /\ \E n \in SliderListLengths, v \in Viewports : InitializedWith(n, v)
  /\ browser = "chrome"

NextSlider ==
  \/ \E g \in GrabOffsets : HandleMouseDown(g)
  \/ \E x \in SliderXs : MouseMove(x)
  \/ MouseUp
  \/ AnimationFrame

SliderSpec == InitSlider /\ [][NextSlider]_vars

---------------------------------------------------------------------------
(* The slider path alone: every update starts at the slider or at a        *)
(* resize and the user never scrolls the list, so that every scroll event  *)
(* is one that setSliderPosition caused.                                   *)

NextSliderPath ==
  \/ \E g \in GrabOffsets : HandleMouseDown(g)
  \/ \E x \in PointerXs : TrackMouseDown(x)
  \/ \E x \in PointerXs : MouseMove(x)
  \/ MouseUp
  \/ AnimationFrame
  \/ \E v \in Viewports : Resize(v[1], v[2])

SliderPathSpec == InitSlider /\ [][NextSliderPath]_vars

---------------------------------------------------------------------------
(* The scroll path alone: the list is scrolled over its whole range and    *)
(* the animation frames run syncSliderWithScroll.                          *)

\* The scroll positions are sampled every ScrollStep pixels.
ScrollStep == 20

ScrollPositions ==
  {y \in 0..MaxScrollTop(Len(pages), displayHeight) : y % ScrollStep = 0}

NextScroll ==
  \/ \E y \in ScrollPositions : Scroll(y)
  \/ AnimationFrame

ScrollSpec == InitSlider /\ [][NextScroll]_vars

---------------------------------------------------------------------------
(* The drag controller alone: every way a drag starts, moves and ends,     *)
(* with the pointer events the script has no listener for.                 *)

NextDrag ==
  \/ \E g \in GrabOffsets : HandleMouseDown(g)
  \/ \E g \in GrabOffsets : HandleTouchStart(g)
  \/ \E x \in PointerXs : TrackMouseDown(x)
  \/ \E x \in PointerXs : MouseMove(x)
  \/ \E x \in PointerXs : TouchMove(x)
  \/ MouseUp
  \/ TouchEnd
  \/ MouseLeave
  \/ TouchCancel
  \/ AnimationFrame

DragSpec == InitSlider /\ [][NextDrag]_vars

---------------------------------------------------------------------------
(* The letter index builder alone: word lists of every order of first      *)
(* characters, sorted or not, delivered before the font is ready.          *)

\* First characters of the words of LetterSpec: letters in both cases, a
\* digit and none (the empty string).
FirstChars == {"a", "A", "C", "z", "3", ""}

\* The word lists of LetterSpec, each given by its first characters.
LetterLists ==
  UNION {[1..n -> FirstChars] : n \in 0..MaxLetterWords}

\* The state after the fetch delivered the list with first characters cs in
\* viewport v, the font still loading.
ListDelivered(cs, v) ==
    /\ wordList = [k \in DOMAIN cs |-> <<cs[k], k - 1>>]
    /\ fontLoaded = FALSE
    /\ wordsLoaded = TRUE
    /\ fetchState = "ok"
    /\ initialized = FALSE
  /\ initializeCalls = 0
    /\ displayHeight = v[1]
    /\ containerWidth = v[2]
    /\ sliderWidth = v[2]
    /\ currentPosition = RatInt(0)
    /\ handleLeft = RatInt(0)
    /\ isDragging = FALSE
    /\ startX = 0
    /\ mouseListeners = FALSE
    /\ touchListeners = FALSE
    /\ rowsPerColumn = 0
    /\ wordsPerPage = 0
    /\ verticalPadding = 0
    /\ pages = <<>>
    /\ currentVisiblePageIndex = 0
    /\ scrollTop = 0
    /\ rafQueue = 0
    /\ hung = FALSE
    /\ threw = FALSE
    /\ roundTrip = NoCalls
    /\ letterDividers = <<>>
    /\ lettersFitArray = <<>>
    /\ activeLetterOverlays = <<>>
    /\ ignoredEvents = <<>>
    /\ scrollSnapType = "y mandatory"
    /\ scrollSnapTimer = 0
    /\ timers = {}
    /\ browser = "chrome"

InitLetter == \E cs \in LetterLists, v \in Viewports : ListDelivered(cs, v)

NextLetter ==
  \/ FontReady
  \/ \E v \in Viewports : Resize(v[1], v[2])

LetterSpec == InitLetter /\ [][NextLetter]_vars

---------------------------------------------------------------------------
(* Properties.                                                             *)

Populated(page) == Len(page.children) > 0

\* The indices of the populated pages.
PopulatedPages == {k - 1 : k \in {j \in DOMAIN pages : Populated(pages[j])}}

\* The number of word items of a page.
ItemCount(page) ==
  IF Populated(page)
    THEN Len(page.children[1].items) + Len(page.children[2].items)
           + Len(page.children[3].items)
    ELSE 0

RECURSIVE SumItems(_)
SumItems(k) == IF k = 0 THEN 0 ELSE ItemCount(pages[k]) + SumItems(k - 1)

\* The number of word items that exist in the display area.
WordItemCount == SumItems(Len(pages))

\* totalPages of the current word list and layout.
TotalPages == totalPagesOf(Len(wordList), wordsPerPage)

\* The interface has been initialized with a non-empty word list.
Ready == initialized /\ Len(wordList) > 0

\* C1: once the interface is initialized, at most 3 pages are populated and
\* at most 3 x wordsPerPage word items exist, whatever the list length and
\* however far the visible page index jumps in one update.
C1_VirtualizationBound ==
  initialized =>
    /\ Cardinality(PopulatedPages) <= 3
    /\ WordItemCount <= 3 * wordsPerPage

\* C2: with a non-empty list, each of the pages p-1, p, p+1 that exists is
\* populated, p being the current visible page.
C2_WindowPopulated ==
  Ready =>
    \A i \in (currentVisiblePageIndex - 1)..(currentVisiblePageIndex + 1) :
      (0 <= i /\ i < TotalPages) =>
        (i + 1 \in DOMAIN pages /\ Populated(pages[i + 1]))

\* A slider- or scroll-driven update made page 3 of 5 the visible page and
\* its two neighbours exist.
C2_Witness ==
  /\ Ready /\ TotalPages = 5 /\ currentVisiblePageIndex = 3
  /\ PopulatedPages = {2, 3, 4}

\* The positions <<column, row>> (from 0) of page k's word items.
ItemPlaces(page) ==
  {cr \in (0..(ColumnsPerPage - 1)) \X (0..(rowsPerColumn - 1)) :
     cr[2] < Len(page.children[cr[1] + 1].items)}

ItemAt(page, cr) == page.children[cr[1] + 1].items[cr[2] + 1]

\* C3: a populated page p holds exactly the words with index i,
\* p * wordsPerPage <= i < min((p+1) * wordsPerPage, length), each once, word
\* p * wordsPerPage + c * rowsPerColumn + r in column c, row r; so word i is
\* only on page floor(i / wordsPerPage).
C3_PageContent ==
  \A k \in DOMAIN pages :
    Populated(pages[k]) =>
      LET p == k - 1
          lo == p * wordsPerPage
          hi == Min((p + 1) * wordsPerPage, Len(wordList))
      IN  /\ Len(pages[k].children) = ColumnsPerPage
          /\ \A cr \in ItemPlaces(pages[k]) :
               LET i == lo + cr[1] * rowsPerColumn + cr[2]
               IN  /\ lo <= i /\ i < hi
                   /\ ItemAt(pages[k], cr) = wordList[i + 1]
                   /\ i \div wordsPerPage = p
          /\ \A i \in lo..(hi - 1) :
               Cardinality({cr \in ItemPlaces(pages[k]) :
                              ItemAt(pages[k], cr) = wordList[i + 1]}) = 1

\* A full page and the partly filled last page are populated, with more than
\* one row per column.
C3_Witness ==
  /\ rowsPerColumn > 1
  /\ \E k \in DOMAIN pages : k > 1 /\ ItemCount(pages[k]) = wordsPerPage
  /\ \E k \in DOMAIN pages :
       /\ k = Len(pages) /\ Populated(pages[k])
       /\ ItemCount(pages[k]) < wordsPerPage

\* C8: with a non-empty list, the current visible page index is an integer
\* in [0, totalPages) of the current layout.
C8_PageIndexInRange ==
  Ready =>
    /\ currentVisiblePageIndex \in Int
    /\ 0 <= currentVisiblePageIndex
    /\ currentVisiblePageIndex < TotalPages

\* The slider is at its largest offset and the visible page is the last of
\* at least four.
C8_Witness ==
  /\ Ready /\ TotalPages >= 4
  /\ currentPosition = RatInt(sliderWidth - handleWidth)
  /\ currentVisiblePageIndex = TotalPages - 1

\* C4: populatePage on a page that is populated already changes nothing:
\* no page gets other content and no column or word is added.
C4_PopulateIdempotent ==
  [][\A i \in 0..(MaxWords - 1) :
       (PopulateCall(i) /\ Populated(pages[i + 1])) => pages' = pages]_vars

\* populatePage was called on a populated page.
C4_Witness ==
  /\ roundTrip.again
  /\ Cardinality(PopulatedPages) >= 2

\* C5: with the layout unchanged, populate(p), clear(p), populate(p) leaves
\* page p with the content the first populate(p) gave it.
C5_RoundTrip ==
  roundTrip.stage = 3 =>
    pages[roundTrip.page + 1].children = roundTrip.content

\* A page past the first two went through populate, clear, populate and
\* holds words.
C5_Witness ==
  /\ roundTrip.stage = 3 /\ roundTrip.page >= 2
  /\ ItemCount(pages[roundTrip.page + 1]) > 0

\* The index and the height of every placeholder, in document order.
Placeholders ==
  [k \in DOMAIN pages |-> <<pages[k].pageIndex, pages[k].height>>]

\* A step that rebuilds the page list: initializeInterface or a resize.
Rebuild ==
  \/ FontReady
  \/ \E n \in ListLengths : FetchOk(n)
  \/ \E v \in Viewports : Resize(v[1], v[2])

\* C6: after initialization there are ceil(length / wordsPerPage)
\* placeholders, with indices 0, 1, ... in order and the fixed height each,
\* and only a full rebuild adds, removes, reorders or resizes a placeholder.
C6_PlaceholdersStable ==
  /\ [](initialized =>
          /\ Len(pages) = TotalPages
          /\ \A k \in DOMAIN pages :
               /\ pages[k].pageIndex = k - 1
               /\ pages[k].height = PageStyleHeight)
  /\ [][Placeholders' = Placeholders \/ Rebuild]_vars

\* Page 0 of 5, populated when the list was built, has been cleared and is
\* still in its place with its height.
C6_Witness ==
  /\ Ready /\ Len(pages) = 5
  /\ ~Populated(pages[1])
  /\ Placeholders[1] = <<0, PageStyleHeight>>
  /\ currentVisiblePageIndex = 2

\* clamp(v, lo, hi).
Clamp(v, lo, hi) == Max(lo, Min(hi, v))

\* C7: for every slider offset x in [0, sliderWidth - handleWidth] the page
\* index of x is clamp(floor(x / (sliderWidth - handleWidth) * totalPages),
\* 0, totalPages - 1), offset 0 giving page 0 and the largest offset the
\* last page; a drag step on the slider makes that page the visible page.
C7_SliderToPage ==
  /\ [](Ready =>
          LET range == sliderWidth - handleWidth
              page(x) == pageIndexOfPosition(RatInt(x), sliderWidth,
                                             Len(wordList), wordsPerPage)
          IN  /\ \A x \in 0..range :
                   page(x) = Clamp((x * TotalPages) \div range,
                                   0, TotalPages - 1)
              /\ page(0) = 0
              /\ page(range) = TotalPages - 1)
  /\ [][\/ currentVisiblePageIndex' =
              Clamp((currentPosition'[1] * TotalPages)
                      \div (currentPosition'[2] * (sliderWidth - handleWidth)),
                    0, TotalPages - 1)
        \/ ~(Ready /\ isDragging /\ \E x \in SliderXs : MouseMove(x))]_vars

\* The handle was dragged inside the track to an offset of page 3 of 5.
C7_Witness ==
  /\ Ready /\ isDragging /\ TotalPages = 5
  /\ currentPosition = RatInt(400)
  /\ currentVisiblePageIndex = 3

\* C9: the page index p of the slider offset, turned into the offset the
\* scroll path gives page p (p / (totalPages - 1), or p when totalPages is 1,
\* times the track range), maps to page p again; for the current offset and
\* for every whole offset of the track.
C9_SliderRoundTrip ==
  Ready =>
    LET range == sliderWidth - handleWidth
        page(pos) == pageIndexOfPosition(pos, sliderWidth, Len(wordList),
                                         wordsPerPage)
        back(p) == positionOfPage(p, TotalPages, sliderWidth)
    IN  \A pos \in {currentPosition} \cup {RatInt(x) : x \in 0..range} :
          page(back(page(pos))) = page(pos)

\* The slider sits at an offset the scroll path derived for a page that is
\* neither the first nor the last.
C9_Witness ==
  /\ Ready /\ ~isDragging /\ rafQueue = 0 /\ TotalPages = 5
  /\ currentVisiblePageIndex = 3
  /\ currentPosition = positionOfPage(3, 5, sliderWidth)
  /\ currentPosition # RatInt(400)

\* C10: after initialization, once the queued animation-frame callbacks have
\* run, the page of the slider offset, the page the scroll offset shows and
\* currentVisiblePageIndex are one page, also after a scroll made during a
\* drag and after that drag ended.
C10_OneValue ==
  (Ready /\ rafQueue = 0) =>
    /\ pageIndexOfPosition(currentPosition, sliderWidth, Len(wordList),
                           wordsPerPage) = currentVisiblePageIndex
    /\ pageIndexOfScroll(scrollTop, displayHeight) = currentVisiblePageIndex

\* C11: while isDragging is true, a run of syncSliderWithScroll leaves
\* currentPosition and the handle's left as they were.
C11_NoSyncMoveWhileDragging ==
  [][(isDragging /\ AnimationFrame) =>
       (currentPosition' = currentPosition /\ handleLeft' = handleLeft)]_vars

\* syncSliderWithScroll ran during a drag and took page 1 as visible while
\* the slider is still at the offset of page 0.
C11_Witness ==
  /\ Ready /\ isDragging /\ rafQueue = 0
  /\ scrollTop = 200 /\ currentVisiblePageIndex = 1
  /\ currentPosition = RatInt(0) /\ handleLeft = RatInt(0)

\* C12: the scroll event a slider-driven update caused (drag, track click,
\* resize; the user does not scroll in SliderPathSpec) never makes
\* syncSliderWithScroll move the slider away from the offset set.
C12_NoEcho ==
  [][AnimationFrame =>
       (currentPosition' = currentPosition /\ handleLeft' = handleLeft)]_vars

\* C13: the callbacks of an animation frame (the scroll path) do not scroll
\* the list and queue no further callback, so the chain of updates an input
\* event starts ends with that frame, after at most one silent slider update
\* for each queued callback.
C13_NoUpdateCycle ==
  [][AnimationFrame => (scrollTop' = scrollTop /\ rafQueue' = 0)]_vars

\* The frame after a scroll 200 px past the top of page 1 moved the slider
\* to the offset of page 2 and nothing is queued.
C13_Witness ==
  /\ Ready /\ ~isDragging /\ rafQueue = 0 /\ TotalPages = 5
  /\ scrollTop = 572 /\ currentVisiblePageIndex = 2
  /\ currentPosition = positionOfPage(2, 5, sliderWidth)

\* C14: however many scroll events arrive between two animation frames, a
\* frame runs syncSliderWithScroll at most once.
C14_OncePerFrame ==
  [][AnimationFrame => rafQueue <= 1]_vars

\* C15: a run of syncSliderWithScroll takes as visible the page whose top
\* and bottom bounds contain the viewport's midpoint
\* scrollTop + displayHeight / 2, whatever the page index, the page height
\* and the gap between two pages.
C15_MidpointPage ==
  [][AnimationFrame =>
       \A k \in 0..(Len(pages) - 1) :
         (/\ 2 * PageTop(k) <= 2 * scrollTop + displayHeight
          /\ 2 * scrollTop + displayHeight < 2 * (PageTop(k) + PageOffsetHeight))
           => currentVisiblePageIndex' = k]_vars

\* C16: after every operation the slider offset lies on the track:
\* 0 <= currentPosition <= track width - handleWidth, whatever pointer
\* coordinate was received; the handle's left is the same offset.
C16_HandleOnTrack ==
  /\ RatLE(RatInt(0), currentPosition)
  /\ RatLE(currentPosition, RatInt(containerWidth - handleWidth))
  /\ handleLeft = currentPosition


\* C17: from the Dragging state each event that should end the drag
\* (pointer up, pointer leave, pointer or touch cancel, for the mouse and
\* for the touch variant) leaves isDragging false, no letter overlay, and the
\* move and end listeners of its variant detached.
C17_DragAlwaysEnds ==
  [][(isDragging /\ (MouseUp \/ TouchEnd \/ MouseLeave \/ TouchCancel)) =>
       /\ ~isDragging'
       /\ activeLetterOverlays' = <<>>
       /\ (MouseUp \/ MouseLeave) => ~mouseListeners'
       /\ (TouchEnd \/ TouchCancel) => ~touchListeners']_vars


\* C18: in every reachable state, if a letter overlay is present then a drag
\* is in progress; a resize or a scroll sync outside a drag creates none.
C18_OverlaysOnlyWhileDragging ==
  Len(activeLetterOverlays) > 0 => isDragging

\* A drag on a list of 5 pages shows the overlays of the current letter and
\* of its two neighbours.
C18_Witness ==
  /\ Ready /\ isDragging /\ TotalPages = 5
  /\ Len(activeLetterOverlays) = 3
  /\ activeLetterOverlays[2].opacity = "1"


\* The positions of the words of the list that start with letter k of the
\* alphabet, in either case.
StartingWith(k) ==
  {i \in 0..(Len(wordList) - 1) :
     charAt0(wordList[i + 1]) \in {Alphabet[k], LowerCase[k]}}

\* C19: for each letter A-Z the index built from the word list is the
\* smallest position whose word starts with that letter in either case, and
\* -1 exactly when no word starts with it; words starting with a non-letter
\* do not change it.  The dividers placed are those of this index.
C19_LetterIndex ==
  \A k \in DOMAIN Alphabet :
    LET index == letterIndices(wordList)[Alphabet[k]]
    IN  /\ index = IF StartingWith(k) = {} THEN -1
                   ELSE CHOOSE i \in StartingWith(k) :
                          \A j \in StartingWith(k) : i <= j
        /\ (k >= 2 /\ Len(letterDividers) > 0) =>
              \E v \in Viewports :
                letterDividers[k - 1].left =
                  RatAdd(Rat(index * (v[2] - handleWidth), Len(wordList)),
                         Rat(handleWidth, 2))

\* The list "3..", "a..", "A.." was delivered and the interface built its
\* dividers: the index of A is 1.
C19_Witness ==
  /\ initialized /\ Len(wordList) = 3 /\ Len(letterDividers) = 25
  /\ charAt0(wordList[1]) = "3"
  /\ charAt0(wordList[2]) = "a"
  /\ charAt0(wordList[3]) = "A"
  /\ letterIndices(wordList)["A"] = 1

\* Where a first character sorts without regard to case: the empty string,
\* then non-letters, then the letters in alphabet order.
sortRank(c) ==
  IF c = "" THEN -2 ELSE alphabetIndexOf(toUpperCase(c))

\* The word list is sorted by first character without regard to case.
SortedNoCase ==
  \A i, j \in DOMAIN wordList :
    i <= j => sortRank(charAt0(wordList[i])) <= sortRank(charAt0(wordList[j]))

\* C20: for a word list sorted without regard to case, the dividers B to Z
\* that createLetterDividers places are at non-decreasing positions.
C20_DividersMonotone ==
  (SortedNoCase /\ Len(letterDividers) > 0) =>
    \A k \in 1..(Len(letterDividers) - 1) :
      RatLE(letterDividers[k].left, letterDividers[k + 1].left)


\* The step runs initializeInterface: the second of the two load flags is set.
InitializeStep ==
  /\ ~(fontLoaded /\ wordsLoaded)
  /\ fontLoaded' /\ wordsLoaded'

\* The step is a window resize.
ResizeStep ==
  \E v \in Viewports : Resize(v[1], v[2])

\* C21: with an empty word list no divider element exists, and the steps that
\* build the letter index and the dividers (initialization and resize, outside
\* a drag) raise no error.
C21_EmptyListNoDividers ==
  /\ []((wordsLoaded /\ Len(wordList) = 0) => Len(letterDividers) = 0)
  /\ [][\/ threw' = threw
        \/ ~(Len(wordList') = 0 /\ ~isDragging
               /\ (InitializeStep \/ ResizeStep))]_vars

\* The interface was initialized with the empty list and then resized.
C21_Witness ==
  /\ initialized /\ wordsLoaded /\ Len(wordList) = 0
  /\ containerWidth # sliderWidth \/ displayHeight = 500
  /\ Len(letterDividers) = 0 /\ ~threw


\* C22: while the word list has not been delivered (fetch pending or failed)
\* the interface is never initialized and no sequence of user events
\* populates a page, creates a divider or an overlay, or raises an error.
C22_InertWithoutWords ==
  ~wordsLoaded =>
    /\ ~initialized
    /\ PopulatedPages = {}
    /\ Len(letterDividers) = 0
    /\ Len(activeLetterOverlays) = 0
    /\ ~threw /\ ~hung


---------------------------------------------------------------------------
(* The scroll-snap timer: wheel events, the clock and the slider handlers   *)
(* that switch snapping back on, from an initialized interface in any       *)
(* browser.                                                                 *)

InitSnap ==
  /\ \E n \in {1, MaxWords}, v \in Viewports : InitializedWith(n, v)
  /\ browser \in Browsers

NextSnap ==
  \/ \E e \in WheelEvents : Wheel(e)
  \/ SnapTimerFires
  \/ Tick
  \/ \E g \in GrabOffsets : HandleMouseDown(g)
  \/ \E x \in PointerXs : TrackMouseDown(x)
  \/ \E x \in PointerXs : MouseMove(x)
  \/ MouseUp

SnapSpec == InitSnap /\ [][NextSnap]_vars

\* Time passes and the browser runs the callback of an expired timeout.
SnapLiveSpec ==
  /\ SnapSpec
  /\ WF_vars(Tick)
  /\ WF_vars(SnapTimerFires)

\* The step is a wheel event for which the listener calls disableScrollSnap.
QualifyingWheel ==
  \E e \in WheelEvents : wheelDisablesSnap(e) /\ Wheel(e)

\* C23: every qualifying wheel event switches scroll snapping off and leaves
\* exactly one pending timer, a new one with the full 120 ms; snapping is off
\* only while that timer is pending; and unless qualifying wheel events keep
\* arriving, snapping that is off is switched on again.
C23_SnapDebounce ==
  /\ [](/\ Cardinality(timers) <= 1
        /\ scrollSnapTimer # 0 => \E t \in timers : t.id = scrollSnapTimer
        /\ scrollSnapType = "none" =>
              /\ scrollSnapTimer # 0
              /\ \A t \in timers : t.remaining <= SnapDelay)
  /\ [][QualifyingWheel =>
          /\ scrollSnapType' = "none"
          /\ timers' = {[id |-> scrollSnapTimer', remaining |-> SnapDelay]}]_vars
  /\ [][SnapTimerFires =>
          scrollSnapType' = "y mandatory" /\ timers' = {}]_vars
  /\ \/ []<><<QualifyingWheel>>_vars
     \/ (scrollSnapType = "none") ~> (scrollSnapType = "y mandatory")

\* A second qualifying wheel event arrived 80 ms after the first and the
\* timer it started is pending.
C23_Witness ==
  /\ scrollSnapType = "none"
  /\ \E t \in timers : t.id = scrollSnapTimer /\ t.remaining = SnapDelay - TickMs
  /\ browser = "chrome"


---------------------------------------------------------------------------
(* Lists of one or two pages in a display area lower than a page, where a   *)
(* single page can be scrolled.                                             *)

\* The viewports are a display area lower than one page container and the
\* style sheet's.
InitShort ==
  /\ \E n \in {1, 6, 7}, v \in {<<300, 670>>, <<380, 670>>} :
       InitializedWith(n, v)
  /\ browser = "chrome"

NextShort ==
  \/ \E y \in ScrollPositions : Scroll(y)
  \/ AnimationFrame
  \/ \E g \in GrabOffsets : HandleMouseDown(g)
  \/ \E x \in PointerXs : TrackMouseDown(x)
  \/ \E x \in PointerXs : MouseMove(x)
  \/ MouseUp

ShortSpec == InitShort /\ [][NextShort]_vars

\* C24: with a single page the divisor of the normalized position is not
\* zero, and a scroll synchronization outside a drag leaves the slider at
\* offset 0.
C24_SinglePageSync ==
  /\ [](TotalPages = 1 => syncDivisor(TotalPages) # 0)
  /\ [][\/ currentPosition' = RatInt(0) /\ handleLeft' = RatInt(0)
        \/ ~(TotalPages = 1 /\ ~isDragging /\ AnimationFrame)]_vars

\* The single page was scrolled after the slider had been moved by a track
\* click, and the synchronization has run.
C24_Witness ==
  /\ TotalPages = 1 /\ ~isDragging /\ startX # 0
  /\ scrollTop > 0 /\ rafQueue = 0
  /\ currentPosition = RatInt(0)


---------------------------------------------------------------------------
(* Degenerate geometry: the window may be resized to a display area lower   *)
(* than one word item plus the column padding, or lower than the padding.   *)

\* Display areas 100 px and 10 px high.
TinyViewports == {<<100, 670>>, <<10, 670>>}

NextTiny ==
  \/ FontReady
  \/ \E n \in ListLengths : FetchOk(n)
  \/ \E v \in TinyViewports \cup Viewports : Resize(v[1], v[2])
  \/ \E x \in PointerXs : TrackMouseDown(x)
  \/ MouseUp
  \/ \E y \in ScrollTargets : Scroll(y)
  \/ AnimationFrame

TinySpec == Init /\ [][NextTiny]_vars

\* C25: once the layout has been computed for any viewport height,
\* rowsPerColumn is at least 1 and wordsPerPage at least 3, the number of
\* pages is a finite non-negative integer, no page or word index is negative
\* and no handler fails or loops.
C25_RowsFlooredToOne ==
  (fontLoaded /\ wordsLoaded) =>
    /\ rowsPerColumn >= 1
    /\ wordsPerPage >= 3
    /\ IsFinite(TotalPages) /\ TotalPages >= 0
    /\ IsFinite(currentVisiblePageIndex) /\ currentVisiblePageIndex >= -1
    /\ ~hung /\ ~threw


\* Page k (from 1) is as populatePage fills placeholder k - 1 under the
\* layout cx.
PopulatedUnder(page, k, cx) ==
  page = populatePage(createEmptyPage(k - 1), k - 1, cx)

\* C26: a resize that changes the viewport height, and with it
\* rowsPerColumn, leaves exactly ceil(length / new wordsPerPage) placeholders
\* numbered from 0, and every page populated then or later holds the word
\* range of its index under the wordsPerPage in force.
C26_ResizeRebuildsPages ==
  /\ [](\A k \in DOMAIN pages :
          Populated(pages[k]) => PopulatedUnder(pages[k], k, Cx))
  /\ [][\/ displayHeight' = displayHeight
        \/ /\ rowsPerColumn' # rowsPerColumn
           /\ Len(pages') = TotalPages'
           /\ \A k \in DOMAIN pages' :
                /\ pages'[k].pageIndex = k - 1
                /\ Populated(pages'[k]) => PopulatedUnder(pages'[k], k, Cx')]_vars

\* The window was resized to the higher viewport while the slider stood at
\* 190 of 650 (the resize has scaled the offset to 190 * 400 / 650): four
\* pages of twelve words replace the five of nine, and pages 0 to 2 are
\* populated.
C26_Witness ==
  /\ initialized /\ ~threw /\ Len(wordList) >= MaxWords
  /\ displayHeight = 500 /\ wordsPerPage = 12 /\ Len(pages) = 4
  /\ currentPosition = Rat(190 * 400, 650)
  /\ PopulatedPages = {0, 1, 2}


\* C27: after a resize that changes the layout and rebuilds the page list
\* the current visible page index is 0, wherever the slider stood.
C27_RebuildResetsToPageZero ==
  [][\/ displayHeight' = displayHeight
     \/ ~Ready
     \/ currentVisiblePageIndex' = 0]_vars


\* The step moves the slider of a ready interface during a drag.
SliderJump ==
  /\ Ready /\ isDragging
  /\ currentPosition' # currentPosition

\* The first letter of word i in a sorted list with 1,000 words for each
\* letter, as an index into the alphabet.
ThousandPerLetter(i) == i \div 1000

\* C28: a drag step that moves the slider to fraction f of its range makes
\* visible a page whose first word index differs from f * length by at most
\* wordsPerPage; and with 26,000 words, 1,000 for each letter, the middle of
\* the range selects a page whose first word starts with M, N or O.
C28_ProportionalJump ==
  /\ [][\/ ~SliderJump
        \/ LET range == sliderWidth - handleWidth
               first == currentVisiblePageIndex' * wordsPerPage
               n == currentPosition'[1]
               d == currentPosition'[2]
           IN  Abs(first * range * d - n * Len(wordList))
                 <= wordsPerPage * range * d]_vars
  /\ [](Ready =>
          LET p == pageIndexOfPosition(Rat(sliderWidth - handleWidth, 2),
                                       sliderWidth, 26 * 1000, wordsPerPage)
              letter == ThousandPerLetter(p * wordsPerPage)
          IN  12 <= letter /\ letter < 15)

\* A drag has moved the slider to 320 of 650 with 37 words on 5 pages: page
\* 2, whose first word is word 18, is visible.
C28_Witness ==
  /\ Ready /\ isDragging /\ Len(wordList) >= MaxWords /\ wordsPerPage = 9
  /\ currentPosition = RatInt(320)
  /\ currentVisiblePageIndex = 2


\* The step is a mousemove or touchmove event handled by its listener.
PointerMoveStep ==
  \E x \in PointerXs : MouseMove(x) \/ TouchMove(x)

\* C29: while no drag is in progress a mousemove or touchmove event changes
\* neither the slider offset, nor the handle, nor the current visible page
\* index, nor any page, nor the overlays.
C29_StrayMovesIgnored ==
  [][\/ isDragging
     \/ UNCHANGED <<currentPosition, handleLeft, currentVisiblePageIndex,
                    pages, activeLetterOverlays>>
     \/ ~PointerMoveStep]_vars

\* A drag begun with both mouse and touch was ended by mouseup after the
\* slider had moved: no drag is in progress and touchmove still has its
\* listener.
C29_Witness ==
  /\ Ready /\ ~isDragging /\ touchListeners /\ ~mouseListeners
  /\ currentPosition # RatInt(0)
  /\ currentVisiblePageIndex > 0


---------------------------------------------------------------------------
(* Drags over lists whose pages begin with letters, a digit or the empty    *)
(* string.                                                                  *)

\* The first characters the pages of OverlaySpec may begin with.
PageChars == {"a", "B", "c", "3", ""}

\* The length of the lists of OverlaySpec: three pages of nine words.
OverlayWords == 3 * 9

\* The lists of OverlaySpec by their first characters: nine words for each
\* of three characters.
OverlayLists ==
  {[k \in 1..OverlayWords |-> cs[(k - 1) \div 9 + 1]] :
     cs \in [1..3 -> PageChars]}

InitOverlay ==
  \E cs \in OverlayLists : ListDelivered(cs, <<380, 670>>)

NextOverlay ==
  \/ FontReady
  \/ \E g \in GrabOffsets : HandleMouseDown(g)
  \/ \E x \in PointerXs \cup {300} : MouseMove(x)
  \/ MouseUp

OverlaySpec == InitOverlay /\ [][NextOverlay]_vars

\* The upper-cased first character of the first word of page p.
PageLetter(p) == toUpperCase(charAt0(wordList[p * wordsPerPage + 1]))

\* The letters next to c in the alphabet (none when c is no letter).
AlphabetNeighbours(c) ==
  {Alphabet[k] : k \in {j \in DOMAIN Alphabet :
                          /\ c \in AlphabetSet
                          /\ Abs(j - 1 - AlphabetIndex[c]) = 1}}

\* The step is a handled mousemove during a drag on a ready interface.
DragMoveStep ==
  /\ Ready /\ isDragging
  /\ \E x \in PointerXs \cup {300} : MouseMove(x)

\* C30: after every pointer move of a drag at most three overlays are shown,
\* each the first letter of the current page's first word or a neighbour of
\* it in the alphabet, the current letter with opacity 1 and the neighbours
\* with a lower one; when the first word of the page starts with no letter
\* no overlay is left.
C30_OverlaysOfCurrentPage ==
  [][~DragMoveStep \/ threw' \/
       LET cur == PageLetter(currentVisiblePageIndex)'
           shown == activeLetterOverlays'
       IN  /\ Len(shown) <= 3
           /\ \A k \in DOMAIN shown :
                \/ shown[k].letter = cur /\ shown[k].opacity = "1"
                \/ /\ shown[k].letter \in AlphabetNeighbours(cur)
                   /\ shown[k].opacity = "0.6"
           /\ cur \notin AlphabetSet => shown = <<>>]_vars


\* C31: every divider element is for a letter B-Z with which at least one
\* word of the list starts; a letter without words has no divider.
C31_NoDividerForAbsentLetter ==
  \A k \in DOMAIN letterDividers :
    StartingWith(AlphabetIndex[letterDividers[k].title[2]] + 1) # {}


\* Letter k (from 1) of the alphabet has a word in the list.
HasWords(k) == StartingWith(k) # {}

\* Where the section of letter k begins on a track of the given width: 0 for
\* A, else the share of the list before the letter's first word.
SectionStart(k, availableWidth) ==
  IF k = 1 THEN RatInt(0)
  ELSE Rat(letterIndices(wordList)[Alphabet[k]] * availableWidth,
           Len(wordList))

\* Where the section of letter k ends: at the start of the next letter that
\* has words, or at the end of the track.
SectionEnd(k, availableWidth) ==
  LET later == {j \in DOMAIN Alphabet : j > k /\ HasWords(j)}
  IN  IF later = {} THEN RatInt(availableWidth)
      ELSE SectionStart(CHOOSE j \in later : \A i \in later : j <= i,
                        availableWidth)

\* C32: a letter is marked as fitting exactly when it has words and its
\* glyph width plus the margin is less than the distance from its own
\* divider to the next divider of a letter that has words (or the track end).
C32_LetterFit ==
  Len(lettersFitArray) > 0 =>
    \A k \in DOMAIN Alphabet :
      lettersFitArray[k] =
        (/\ HasWords(k)
         /\ RatLT(RatInt(measureTextWidth(Alphabet[k]) + LetterPadding),
                  RatSub(SectionEnd(k, containerWidth - handleWidth),
                         SectionStart(k, containerWidth - handleWidth))))


\* The position of the divider that begins the section of letter k (from 1),
\* before the half-handle shift: 0 for A, the track end after Z, else the
\* divider element placed for the letter.
DividerAt(k) ==
  IF k = 1 THEN RatInt(0)
  ELSE IF k > Len(Alphabet) THEN RatInt(sliderWidth - handleWidth)
  ELSE RatSub(letterDividers[k - 1].left, Rat(handleWidth, 2))

\* C33: every overlay shown stands at the midpoint between the divider of
\* its letter and the next divider, within [0, trackWidth - handleWidth]
\* before the half-handle shift, and its letter is marked as fitting.
C33_OverlayPlacement ==
  \A n \in DOMAIN activeLetterOverlays :
    LET k == alphabetIndexOf(activeLetterOverlays[n].letter) + 1
        position == RatSub(activeLetterOverlays[n].left, Rat(handleWidth, 2))
    IN  /\ position = RatDivInt(RatAdd(DividerAt(k), DividerAt(k + 1)), 2)
        /\ RatLE(RatInt(0), position)
        /\ RatLE(position, RatInt(sliderWidth - handleWidth))
        /\ lettersFitArray[k]


\* C34: a wheel event in chrome that is not trackpad-shaped (wheelDeltaY
\* differs from -3 x deltaY) switches scroll snapping off and starts the
\* timer; a wheel event in any other browser, or a trackpad-shaped one,
\* leaves the scroll-snap setting, the timer variable and the pending
\* timeouts unchanged.
C34_WheelGated ==
  [][\A e \in WheelEvents :
       Wheel(e) =>
         IF browser = "chrome" /\ e[1] # -3 * e[2]
           THEN scrollSnapType' = "none" /\ scrollSnapTimer' # 0
           ELSE UNCHANGED snapState]_vars

\* In a browser other than chrome the slider has been moved by a drag and
\* scroll snapping is on with no timeout pending: a wheel event is handled
\* here by the listener of the initialized interface.
C34_Witness ==
  /\ initialized /\ browser = "firefox"
  /\ scrollSnapType = "y mandatory" /\ scrollSnapTimer = 0 /\ timers = {}
  /\ currentPosition # RatInt(0)


---------------------------------------------------------------------------
(* How a drag starts: the handle grabbed anywhere across its width, and the  *)
(* track clicked at its ends and in between.                                 *)

\* Where the handle may be grabbed, from its left edge.
StartGrabs == {0, 10, 20}

\* Pointer positions of a click on the track, from the container's left
\* edge.
TrackXs == {0, 5, 200, 415, 420, 665, 670}

NextStart ==
  \/ \E g \in StartGrabs : HandleMouseDown(g)
  \/ \E g \in StartGrabs : HandleTouchStart(g)
  \/ \E x \in TrackXs : TrackMouseDown(x)
  \/ \E x \in PointerXs : MouseMove(x)
  \/ MouseUp
  \/ TouchEnd
  \/ AnimationFrame

StartSpec == InitSlider /\ [][NextStart]_vars

\* C35: a mousedown or touchstart on the handle enters Dragging, leaves the
\* slider and the visible page where they are and records the pointer's
\* offset from the handle's left edge; a mousedown elsewhere on the track
\* puts the handle's centre at the pointer, clamped to the track, makes the
\* page of that offset the visible page and enters Dragging with startX =
\* handleWidth / 2.
C35_DragStart ==
  /\ [][\A g \in StartGrabs :
          (HandleMouseDown(g) \/ HandleTouchStart(g)) =>
            /\ isDragging' /\ startX' = g
            /\ UNCHANGED <<currentPosition, handleLeft,
                           currentVisiblePageIndex, pages, scrollTop>>]_vars
  /\ [][\A x \in TrackXs :
          (Ready /\ TrackMouseDown(x)) =>
            /\ currentPosition' =
                 RatInt(Clamp(x - handleWidth \div 2, 0,
                              sliderWidth - handleWidth))
            /\ handleLeft' = currentPosition'
            /\ currentVisiblePageIndex' =
                 Clamp((currentPosition'[1] * TotalPages)
                         \div (sliderWidth - handleWidth),
                       0, TotalPages - 1)
            /\ isDragging' /\ mouseListeners'
            /\ startX' = handleWidth \div 2]_vars

\* A click at the right end of the 670 px track has put the handle at the
\* largest offset, with the last of five pages visible, and the drag is on.
C35_Witness ==
  /\ Ready /\ isDragging /\ mouseListeners /\ ~touchListeners
  /\ sliderWidth = 670 /\ TotalPages = 5
  /\ currentPosition = RatInt(650) /\ startX = handleWidth \div 2
  /\ currentVisiblePageIndex = 4


\* C36: a resize of the initialized interface leaves the slider at the same
\* share of the track, currentPosition / (sliderWidth - handleWidth), and
\* makes the page of that share under the new layout the visible page.
C36_ResizeKeepsSliderShare ==
  [][\/ ~Ready
     \/ containerWidth' = containerWidth /\ displayHeight' = displayHeight
     \/ /\ RatMulInt(currentPosition', sliderWidth - handleWidth) =
             RatMulInt(currentPosition, sliderWidth' - handleWidth)
        /\ currentVisiblePageIndex' =
             Clamp((currentPosition'[1] * TotalPages')
                     \div (currentPosition'[2] * (sliderWidth' - handleWidth)),
                   0, TotalPages' - 1)]_vars

\* The slider stood at 190 of 650 with page 1 of 5 visible and the window
\* was resized to the narrower, higher viewport: it stands at the same share
\* of 400 and page 1 of 4 is visible.
C36_Witness ==
  /\ Ready /\ ~threw /\ sliderWidth = 420 /\ TotalPages = 4
  /\ currentPosition = Rat(190 * 400, 650)
  /\ currentVisiblePageIndex = 1



\* C37: initializeInterface has been entered once when the font callback has
\* run and the word list has arrived, in whichever order, and it has not
\* been entered at all while either of the two is outstanding or after the
\* fetch has failed.
C37_InitializedExactlyOnce ==
  initializeCalls =
    IF fontLoaded /\ wordsLoaded /\ fetchState = "ok" THEN 1 ELSE 0

\* Both loads have completed, initializeInterface ran its single time and the
\* interface of a non-empty list is up.
C37_Witness ==
  /\ initializeCalls = 1 /\ initialized /\ fontLoaded /\ wordsLoaded
  /\ wordList # <<>> /\ TotalPages > 1



\* C38: whenever scroll snapping is off, the timer that switches it on again
\* is pending; a slider move that reaches updateDisplay (a press on the track
\* or a pointer move of a drag in progress) switches snapping on and cancels
\* that timer; so, under any interleaving of wheel events,
\* slider moves and timer expiry in which the wheel events stop, snapping is
\* on again and again.
C38_SnapNeverLeftDisabled ==
  /\ [](scrollSnapType = "none" =>
          \E t \in timers : t.id = scrollSnapTimer /\ t.remaining >= 0)
  /\ [][(\/ \E x \in PointerXs : TrackMouseDown(x)
         \/ isDragging /\ \E x \in PointerXs : MouseMove(x)) =>
          /\ scrollSnapType' = "y mandatory"
          /\ scrollSnapTimer' = 0
          /\ timers' = {}]_vars
  /\ \/ []<><<QualifyingWheel>>_vars
     \/ []<>(scrollSnapType = "y mandatory")

\* A wheel event switched snapping off while the handle was held, 80 ms
\* passed, and the re-enable timer is still pending over the drag.
C38_Witness ==
  /\ scrollSnapType = "none" /\ isDragging /\ mouseListeners
  /\ \E t \in timers :
       t.id = scrollSnapTimer /\ t.remaining = SnapDelay - 2 * TickMs



\* C39: the initialized interface starts with exactly the pages within 1 of
\* the visible page populated, and an update that moves the visible page by
\* at most one page keeps it so: as long as every update is such a step, the
\* populated pages are exactly {p-1, p, p+1} within [0, totalPages) and all
\* the others are placeholders.
C39_ExactWindowUnderSingleSteps ==
  /\ PopulatedPages =
       {i \in (currentVisiblePageIndex - 1)..(currentVisiblePageIndex + 1) :
          0 <= i /\ i < TotalPages}
  /\ [][\/ Abs(currentVisiblePageIndex' - currentVisiblePageIndex) > 1
        \/ PopulatedPages #
             {i \in (currentVisiblePageIndex - 1)..(currentVisiblePageIndex + 1) :
                0 <= i /\ i < TotalPages}
        \/ PopulatedPages' =
             {i \in (currentVisiblePageIndex' - 1)..(currentVisiblePageIndex' + 1) :
                0 <= i /\ i < TotalPages'}]_vars

\* The list was scrolled to its end and the last of five pages is the
\* visible one, populated together with the page before it and no other.
C39_Witness ==
  /\ Ready /\ TotalPages = 5 /\ currentVisiblePageIndex = 4
  /\ PopulatedPages = {3, 4}
  /\ scrollTop = MaxScrollTop(Len(pages), displayHeight)



\* C40: every call of loadAllPages returns, whatever the word list and the
\* viewport, a rowsPerColumn of zero or less included: no step that runs
\* initializeInterface and no window resize, to a viewport of any height,
\* leaves the script in its placeholder loop.
C40_RebuildTerminates ==
  [][(\/ InitializeStep
      \/ \E v \in TinyViewports \cup Viewports : Resize(v[1], v[2])) =>
       ~hung']_vars

============================================================================
